---- MODULE Spec2Model ----
(***************************************************************************)
(* Slack thread extraction: the backoff fetcher, the pagination loops, the *)
(* thread assembler of src/test.py (extract_slack_threads) and of          *)
(* src/app.py (/fetch-slack-messages), and run_extraction_pipeline of      *)
(* src/test.py, run against a synthetic Slack API.                         *)
(*                                                                         *)
(* Strings the code inspects character by character (author identifiers)   *)
(* are sequences of one-character strings.  Timestamps are naturals.       *)
(* Durations are counted in units of 1/JitterDen time-units.               *)
(***************************************************************************)
EXTENDS Integers, Sequences, FiniteSets, TLC

VARIABLES
    entry,            \* the function that was called: "fetcher", "workspace", "replies", "extract", "app",
                      \* "resolve_names" (test.py), "app_resolve_names" (app.py),
                      \* "run" (run_extraction_pipeline)
    api,              \* the synthetic Slack workspace the requests are served from
    args,             \* what the caller passed: token, channel_id, the dates, the flags
    text,             \* argument of resolve_names
    faults,           \* number of GETs the API has answered with something else than 200 {"ok": true}
    pc,               \* position in the code of the entry
    \* ---- frame of make_request_with_backoff
    fpc,              \* "idle", "get" (about to GET), "sleep" (in time.sleep), "ret" (returned)
    url,              \* endpoint of the call
    params,           \* query parameters of the call
    max_retries,
    initial_backoff,
    attempt,          \* loop variable of `for attempt in range(max_retries)`
    backoff_time,     \* the duration handed to time.sleep
    fres,             \* the returned value: a body, or None
    gets,             \* number of session.get calls of this call
    sleeps,           \* number of completed time.sleep calls of this call
    lastSleep,        \* duration of the last completed sleep of this call
    lastStatus,       \* outcome of the last GET of this call
    \* ---- fetch_workspace_data / fetch_users, fetch_channels, fetch_usergroups
    cursor,           \* local `cursor` of the running directory loop
    users, channels, usergroups,
    \* ---- fetch_thread_replies / fetch_replies
    thread_ts,        \* argument: the ts of the root
    replies_params,
    rcursor,          \* local `cursor` of fetch_thread_replies
    all_replies,
    replies,          \* the returned list
    \* ---- extract_slack_threads / fetch_slack_messages
    max_threads,      \* argument (None: no cap)
    hparams,          \* `params` of the history loop
    data,             \* body of the history page being processed
    messages,         \* data["messages"] of that page
    mi,               \* index in `messages` of the message the for loop is at
    thread,           \* the thread being assembled
    all_threads,
    total_messages,
    records,          \* thread_data / results: one record per thread
    \* ---- resolve_names
    resolved,         \* the returned string; None before the call and when the call raised
    \* ---- run_extraction_pipeline
    status,
    threads_count,
    raw_output_path,  \* "raw" for the path of the raw file, "" for the empty string
    error_message,    \* "" or the call whose exception was caught
    files,            \* the output files that exist on disk
    written,          \* the output files this run has written
    log,              \* the entries of the extraction log file
    appended,         \* the entries handed to log_extraction_run so far, in order
    \* ---- process_with_llm
    df,               \* the rows of the raw file
    idx,              \* number of rows the loop has been through
    processed_count,
    skipped_count,
    error_count,
    summary_data,     \* the indices of the rows appended to summary_data
    summary_rows,     \* number of rows of the summary file written; None: not written
    \* ---- observation
    calls,            \* the logical requests so far (one per make_request_with_backoff call)
    failed            \* the urls whose pagination saw a terminal failure or ok = false

envVars   == <<entry, api, args, text>>
fetchVars == <<fpc, url, params, max_retries, initial_backoff, attempt,
               backoff_time, fres, gets, sleeps, lastSleep, lastStatus>>
dirVars   == <<cursor, users, channels, usergroups>>
repVars   == <<thread_ts, replies_params, rcursor, all_replies, replies>>
histVars  == <<max_threads, hparams, data, messages, mi, thread, all_threads,
               total_messages, records>>
pipeVars  == <<status, threads_count, raw_output_path, error_message, files, written, log,
               appended>>
llmVars   == <<df, idx, processed_count, skipped_count, error_count, summary_data,
               summary_rows>>
runVars   == <<resolved, pipeVars, llmVars>>
vars      == <<envVars, faults, pc, fetchVars, dirVars, repVars, histVars, runVars,
               calls, failed>>

----------------------------------------------------------------------------
(* Bounds of the model *)

\* make_request_with_backoff called directly: max_retries in 0..MaxRetriesBound
MaxRetriesBound == 3
\* ... and initial_backoff in 1..MaxInitialBackoff
MaxInitialBackoff == 2
\* random.uniform(0, 1) takes the values 0/JitterDen .. JitterDen/JitterDen
JitterDen == 2
\* a directory listing of the synthetic API holds at most this many entries
MaxDirEntries == 3
\* the synthetic API serves directory and history pages of 1..MaxPage entries
MaxPage == 2
\* a channel history of plain messages holds at most this many messages
MaxHist == 4
\* a channel history of messages of all kinds holds at most this many messages
MaxMixed == 2
\* the answers other than 200 {"ok": true} the API gives during one run of
\* extract_slack_threads, fetch_slack_messages or fetch_thread_replies
MaxFaults == 1
\* fetch_thread_replies called directly: the largest thread
MaxThreadReplies == 1500
\* ... and a page size of the replies endpoint that does not divide the cap
OddRepliesPage == 70

\* resolve_names called directly: the text is made of at most this many pieces
MaxPieces == 2
\* log_extraction_run called directly: max_log_entries in 1..MaxLogCap,
\* MaxLogCalls calls
MaxLogCap == 2
MaxLogCalls == 4
\* process_with_llm called directly: a raw file of at most MaxRows rows
MaxRows == 3

(* Constants of the program *)
MAX_RETRIES == 5
INITIAL_BACKOFF == 1
RATE_LIMIT_STATUS == 429
DEFAULT_LIMIT == 100
MAX_MESSAGES_PER_THREAD == 1000
\* 'limit': 200 of the users.list and conversations.list requests
DIR_LIMIT == 200

----------------------------------------------------------------------------
(* Values *)

\* An optional value (a dict key that may be missing, a value that may be
\* Python's None) is a sequence of length 0 or 1
None == <<>>
Some(v) == <<v>>
Val(o) == o[1]

USERS_LIST_URL == "users.list"
CHANNELS_LIST_URL == "conversations.list"
USERGROUPS_LIST_URL == "usergroups.list"
CONVERSATIONS_HISTORY_URL == "conversations.history"
CONVERSATIONS_REPLIES_URL == "conversations.replies"

Min(a, b) == IF a < b THEN a ELSE b
Max(a, b) == IF a < b THEN b ELSE a

RECURSIVE Pow2(_)
Pow2(n) == IF n = 0 THEN 1 ELSE 2 * Pow2(n - 1)

\* the request dict; a key that is not set holds None
NoParams == [limit |-> None, cursor |-> None, types |-> None, channel |-> None,
             oldest |-> None, latest |-> None, ts |-> None]

\* dict[key] = value on a dict kept as the sequence of its (key, value) pairs in
\* insertion order
DictSet(d, k, v) ==
    IF \E i \in 1..Len(d) : d[i][1] = k
    THEN [i \in 1..Len(d) |-> IF d[i][1] = k THEN <<k, v>> ELSE d[i]]
    ELSE Append(d, <<k, v>>)

DictKeys(d) == [i \in 1..Len(d) |-> d[i][1]]

\* dict.get(key, default)
DictGet(d, k, default) ==
    IF \E i \in 1..Len(d) : d[i][1] = k
    THEN d[CHOOSE i \in 1..Len(d) : d[i][1] = k][2]
    ELSE default

\* str.lower() of one character
UpperChars == <<"A","B","C","D","E","F","G","H","I","J","K","L","M",
                "N","O","P","Q","R","S","T","U","V","W","X","Y","Z">>
LowerChars == <<"a","b","c","d","e","f","g","h","i","j","k","l","m",
                "n","o","p","q","r","s","t","u","v","w","x","y","z">>
LowerChar(c) ==
    IF \E i \in 1..Len(UpperChars) : UpperChars[i] = c
    THEN LowerChars[CHOOSE i \in 1..Len(UpperChars) : UpperChars[i] = c]
    ELSE c

\* str.lower()
Lower(str) == [i \in 1..Len(str) |-> LowerChar(str[i])]

\* `sub in str`
Contains(str, sub) ==
    \E i \in 0..(Len(str) - Len(sub)) : SubSeq(str, i + 1, i + Len(sub)) = sub

----------------------------------------------------------------------------
(* The synthetic Slack API *)

\* the members users.list can hold: with real_name; with name only and a profile
Members == <<
    [id |-> <<"U","1">>, real_name |-> Some(<<"A","l">>), name |-> Some(<<"a","l">>), profile_real_name |-> None],
    [id |-> <<"U","2">>, real_name |-> None, name |-> Some(<<"b","o">>), profile_real_name |-> Some(<<"B","o">>)],
    [id |-> <<"U","3">>, real_name |-> Some(<<"C","y">>), name |-> Some(<<"c","y">>), profile_real_name |-> Some(<<"C","y">>)],
    [id |-> <<"U","4">>, real_name |-> Some(<<"D","i">>), name |-> Some(<<"d","i">>), profile_real_name |-> None] >>

ChannelList == <<
    [id |-> <<"C","1">>, name |-> <<"g","e","n">>],
    [id |-> <<"C","2">>, name |-> <<"d","e","v">>],
    [id |-> <<"C","3">>, name |-> <<"o","p","s">>],
    [id |-> <<"C","4">>, name |-> <<"q","a">>] >>

GroupList == <<
    [id |-> <<"S","1">>, handle |-> <<"s","r","e">>],
    [id |-> <<"S","2">>, handle |-> <<"d","b","a">>] >>

USLACKBOT == <<"U","S","L","A","C","K","B","O","T">>
BotUser   == <<"U","B","o","t","7">>
Human1    == <<"U","1">>
Human2    == <<"U","2">>

\* The kinds of message a channel history can hold.  link: whether thread_ts is
\* missing ("none"), the message's own ts ("self") or another message's
\* ("other"); authors: the authors of the replies the API holds for it (None:
\* a reply without 'user'); lacks: the keys among 'ts' and 'text' that the
\* event does not carry.
PlainKind  == [user |-> Some(Human1), subtype |-> None, link |-> "none",
               reply_count |-> None, authors |-> <<>>, lacks |-> {}]
ThreadKind == [user |-> Some(Human2), subtype |-> None, link |-> "self",
               reply_count |-> Some(2), authors |-> <<Some(BotUser), Some(Human1)>>, lacks |-> {}]
BotKind    == [user |-> Some(BotUser), subtype |-> None, link |-> "self",
               reply_count |-> Some(1), authors |-> <<Some(Human1)>>, lacks |-> {}]
SlackbotKind == [user |-> Some(USLACKBOT), subtype |-> None, link |-> "none",
               reply_count |-> None, authors |-> <<>>, lacks |-> {}]
BotMessageKind == [user |-> None, subtype |-> Some(<<"b","o","t","_","m","e","s","s","a","g","e">>),
               link |-> "none", reply_count |-> None, authors |-> <<>>, lacks |-> {}]
BroadcastKind == [user |-> Some(Human1), subtype |-> Some(<<"t","h","r","e","a","d","_","b","r","o","a","d","c","a","s","t">>),
               link |-> "other", reply_count |-> None, authors |-> <<>>, lacks |-> {}]
Kinds == {PlainKind, ThreadKind, BotKind, SlackbotKind, BotMessageKind, BroadcastKind}

\* The kinds of partial event: a thread whose root and first reply carry no
\* 'user', a message without 'text', a message without 'ts'
AnonThreadKind == [user |-> None, subtype |-> None, link |-> "self",
               reply_count |-> Some(2), authors |-> <<None, Some(Human1)>>, lacks |-> {}]
NoTextKind == [user |-> Some(Human1), subtype |-> None, link |-> "none",
               reply_count |-> None, authors |-> <<>>, lacks |-> {"text"}]
NoTsKind   == [user |-> Some(Human1), subtype |-> None, link |-> "none",
               reply_count |-> None, authors |-> <<>>, lacks |-> {"ts"}]
PartialKinds == {AnonThreadKind, NoTextKind, NoTsKind}

\* the channel of the workspace
CHANNEL_ID == <<"C","1">>

\* the argument channel_id: the channel, or the empty string
channel_id == IF args.channel = "missing" THEN <<>> ELSE CHANNEL_ID

\* The kinds of event whose linkage fields do not agree: a message that points
\* to another thread and carries a reply count, a thread root without replies
OrphanKind == [user |-> Some(Human1), subtype |-> None, link |-> "other",
               reply_count |-> Some(1), authors |-> <<>>, lacks |-> {}]
EmptyThreadKind == [user |-> Some(Human1), subtype |-> None, link |-> "self",
               reply_count |-> Some(0), authors |-> <<>>, lacks |-> {}]
LinkKinds == {OrphanKind, EmptyThreadKind}

\* the event carries the key
HasKey(m, key) == key \notin m.lacks

\* extract_slack_threads is running, called directly or by run_extraction_pipeline
Extracting == entry \in {"extract", "run"}

\* the ts of the k-th oldest message of a channel
TsOf(k) == 10 * k

\* a history as the API holds it (newest first), from the kinds of its messages
HistOf(kinds) ==
    [i \in 1..Len(kinds) |->
        LET t == TsOf(Len(kinds) - i + 1) IN
        [ts |-> t,
         user |-> kinds[i].user,
         subtype |-> kinds[i].subtype,
         thread_ts |-> CASE kinds[i].link = "self" -> Some(t)
                         [] kinds[i].link = "other" -> Some(t - 1)
                         [] OTHER -> None,
         reply_count |-> kinds[i].reply_count,
         lacks |-> kinds[i].lacks]]

\* the threads the API holds: for each root ts, the number of replies and their
\* authors (taken in turn)
ThreadsOf(kinds) ==
    LET threaded == {i \in 1..Len(kinds) : kinds[i].authors # <<>>} IN
    { [ts |-> TsOf(Len(kinds) - i + 1), n |-> Len(kinds[i].authors),
       authors |-> kinds[i].authors] : i \in threaded }

HasThread(root) == \E t \in api.threads : t.ts = root
ThreadAt(root) == CHOOSE t \in api.threads : t.ts = root

\* the replies of the thread of `root`, oldest first
ThreadReplies(root) ==
    LET t == ThreadAt(root) IN
    [j \in 1..t.n |->
        [ts |-> root + j,
         user |-> t.authors[((j - 1) % Len(t.authors)) + 1],
         subtype |-> None,
         thread_ts |-> Some(root),
         reply_count |-> None,
         lacks |-> {}]]

\* One page of a listing `items` served from offset `off` (the number of items
\* before the page) in pages of `size` items.  A cursor is the offset of the
\* next page; "" (no cursor) is 0.  With `extra` the API announces a next page
\* whenever the page is full, so that the last page can be empty.
PageOf(items, off, size, extra) ==
    LET n    == Len(items)
        from == Min(off, n)
        to   == Min(from + size, n)
        more == IF extra THEN to - from = size /\ size > 0 ELSE to < n
    IN  [ok |-> TRUE,
         items |-> SubSeq(items, from + 1, to),
         has_more |-> more,
         next_cursor |-> IF more THEN to ELSE 0]

CursorOf(p) == IF p.cursor = None THEN 0 ELSE Val(p.cursor)

\* the body {"ok": false, "error": ...}
NotOkBody == [ok |-> FALSE, items |-> <<>>, has_more |-> FALSE, next_cursor |-> 0]

\* the page size a request gets: the server's, capped by 'limit'
PageSize(p, size) == IF p.limit = None THEN size ELSE Min(Val(p.limit), size)

\* conversations.history: the messages with oldest < ts < latest, newest first,
\* from the position the cursor names; the API gives cursors only with histCursors
ServeHistory(p) ==
    LET h      == api.hist
        isNew(m) == p.latest # None /\ m.ts >= Val(p.latest)
        offLatest == Cardinality({i \in 1..Len(h) : isNew(h[i])})
        inRange == SelectSeq(h, LAMBDA m : p.oldest = None \/ m.ts > Val(p.oldest))
        page   == PageOf(inRange, Max(CursorOf(p), offLatest),
                         PageSize(p, api.histPage), api.extra)
    IN  IF api.histCursors THEN page ELSE [page EXCEPT !.next_cursor = 0]

Reversed(q) == [i \in 1..Len(q) |-> q[Len(q) + 1 - i]]

\* the order in which the endpoint lists the replies of a thread: oldest first
\* (what Slack documents), or newest first
RepliesListed(root) ==
    IF api.repOrder = "desc" THEN Reversed(ThreadReplies(root)) ELSE ThreadReplies(root)

\* conversations.replies: the root first, then a page of its replies, on every page
ServeReplies(p) ==
    LET root == Val(p.ts)
        rootMsgs == SelectSeq(api.hist, LAMBDA m : m.ts = root)
    IN  IF p.ts = None \/ rootMsgs = <<>> THEN NotOkBody
        ELSE IF ~HasThread(root)
        THEN [ok |-> TRUE, items |-> rootMsgs, has_more |-> FALSE, next_cursor |-> 0]
        ELSE LET page == PageOf(RepliesListed(root), CursorOf(p),
                                PageSize(p, api.repPage), api.extra)
             IN  [page EXCEPT !.items = rootMsgs \o page.items]

\* The JSON body of a 200 answer to GET u with parameters p: {"ok": false} for
\* a channel the workspace does not hold
Serve(u, p) ==
    CASE u \in {CONVERSATIONS_HISTORY_URL, CONVERSATIONS_REPLIES_URL}
              /\ p.channel # Some(CHANNEL_ID) -> NotOkBody
      [] u = USERS_LIST_URL ->
           PageOf(api.users, CursorOf(p), PageSize(p, api.dirPage), api.extra)
      [] u = CHANNELS_LIST_URL ->
           PageOf(api.channels, CursorOf(p), PageSize(p, api.dirPage), api.extra)
      [] u = USERGROUPS_LIST_URL ->
           PageOf(api.groups, CursorOf(p), PageSize(p, api.dirPage), api.extra)
      [] u = CONVERSATIONS_HISTORY_URL -> ServeHistory(p)
      [] u = CONVERSATIONS_REPLIES_URL -> ServeReplies(p)
      [] OTHER -> NotOkBody

\* a request without a token: the API answers 200 {"ok": false, "error": "not_authed"}
Unauthorised == args.token = "missing"

\* What one GET can end in: 200 with a body, 200 with {"ok": false}, HTTP 429,
\* any other HTTP error status, a transport failure (requests.RequestException)
Outcomes == {"ok", "notok", "429", "http_error", "transport"}

\* response.status_code of an outcome that is an HTTP answer
StatusCode(o) ==
    CASE o = "429" -> 429
      [] o = "http_error" -> 500
      [] OTHER -> 200

\* raise_for_status() raises requests.exceptions.HTTPError
IsHTTPError(o) == o \in {"429", "http_error"}

----------------------------------------------------------------------------
(* make_request_with_backoff *)

\* the caller's side of the call: a fresh frame
Call(u, p, mr, ib) ==
    /\ fpc' = "get"
    /\ url' = u
    /\ params' = p
    /\ max_retries' = mr
    /\ initial_backoff' = ib
    /\ attempt' = 0
    /\ backoff_time' = 0
    /\ fres' = None
    /\ gets' = 0
    /\ sleeps' = 0
    /\ lastSleep' = 0
    /\ lastStatus' = "none"
    /\ calls' = Append(calls, [url |-> u, params |-> p])

\* the call has returned and its value was taken: the frame is gone
PopFrame ==
    /\ fpc' = "idle"
    /\ url' = ""
    /\ params' = NoParams
    /\ attempt' = 0
    /\ backoff_time' = 0
    /\ fres' = None
    /\ gets' = 0
    /\ sleeps' = 0
    /\ lastSleep' = 0
    /\ lastStatus' = "none"
    /\ UNCHANGED <<max_retries, initial_backoff>>

\* faulty variant of BackoffTime: `2 * attempt` for `2 ** attempt`
BackoffTimeProduct(ib, a, j) == ib * (2 * a) * JitterDen + j

\* initial_backoff * (2 ** attempt) + random.uniform(0, 1), with the jitter j/JitterDen
BackoffTime(ib, a, j) == ib * Pow2(a) * JitterDen + j

\* faulty variant of AttemptsRemain: `attempt < max_retries`
AttemptsRemainOffByOne(a, mr) == a < mr

\* `attempt < max_retries - 1`
AttemptsRemain(a, mr) == a < mr - 1

\* faulty variant of IsRateLimit: every HTTPError is taken for a rate limit
IsRateLimitAny(o) == TRUE

\* `e.response.status_code == RATE_LIMIT_STATUS`
IsRateLimit(o) == StatusCode(o) = RATE_LIMIT_STATUS

\* what the iteration does with the outcome of its GET:
\* "return_json", "sleep" or "return_none"
Handle(o, a, mr) ==
    IF ~IsHTTPError(o)
    THEN (IF o = "transport" THEN "return_none" ELSE "return_json")
    ELSE IF IsRateLimit(o)
         THEN (IF AttemptsRemain(a, mr) THEN "sleep" ELSE "return_none")
         ELSE "return_none"

\* One iteration of the for loop up to its return or its time.sleep call
FetchGet ==
    /\ fpc = "get"
    /\ attempt < max_retries
    /\ \E o \in Outcomes :
        /\ IF Unauthorised THEN o = "notok" ELSE (o # "ok" => faults < api.budget)
        /\ faults' = IF o # "ok" /\ ~Unauthorised THEN faults + 1 ELSE faults
        /\ lastStatus' = o
        /\ gets' = gets + 1
        /\ CASE Handle(o, attempt, max_retries) = "return_json" ->
                  /\ fres' = Some(IF o = "ok" THEN Serve(url, params) ELSE NotOkBody)
                  /\ fpc' = "ret"
                  /\ UNCHANGED backoff_time
             [] Handle(o, attempt, max_retries) = "sleep" ->
                  /\ \E j \in 0..JitterDen :
                        backoff_time' = BackoffTime(initial_backoff, attempt, j)
                  /\ fpc' = "sleep"
                  /\ UNCHANGED fres
             [] OTHER ->
                  /\ fres' = None
                  /\ fpc' = "ret"
                  /\ UNCHANGED backoff_time
    /\ UNCHANGED <<envVars, runVars, pc, url, params, max_retries, initial_backoff,
                   attempt, sleeps, lastSleep, dirVars, repVars, histVars, calls, failed>>

\* time.sleep(backoff_time) returns and the loop goes to its next iteration
FetchSleep ==
    /\ fpc = "sleep"
    /\ sleeps' = sleeps + 1
    /\ lastSleep' = backoff_time
    /\ attempt' = attempt + 1
    /\ fpc' = "get"
    /\ UNCHANGED <<envVars, runVars, faults, pc, url, params, max_retries, initial_backoff,
                   backoff_time, fres, gets, lastStatus, dirVars, repVars, histVars,
                   calls, failed>>

\* range(max_retries) is exhausted without a return: the function ends, None
FetchFallThrough ==
    /\ fpc = "get"
    /\ attempt >= max_retries
    /\ fres' = None
    /\ fpc' = "ret"
    /\ UNCHANGED <<envVars, runVars, faults, pc, url, params, max_retries, initial_backoff,
                   attempt, backoff_time, gets, sleeps, lastSleep, lastStatus,
                   dirVars, repVars, histVars, calls, failed>>

\* `if data and data['ok']`
Good(d) == d # None /\ Val(d).ok

\* the direct call of make_request_with_backoff returns to its caller
FetcherDone ==
    /\ entry = "fetcher"
    /\ pc = "call"
    /\ fpc = "ret"
    /\ pc' = "done"
    /\ PopFrame
    /\ UNCHANGED <<envVars, runVars, faults, dirVars, repVars, histVars, calls, failed>>

----------------------------------------------------------------------------
(* fetch_workspace_data (test.py); fetch_users, fetch_channels,            *)
(* fetch_usergroups (app.py)                                               *)

\* the value stored for a member
\*   test.py: member.get('real_name', member['name']), on KeyError
\*            member.get('profile', {}).get('real_name', 'Unknown')
\*   app.py:  member['real_name'], on any error member['profile']['real_name']
MemberName(m) ==
    IF entry = "app"
    THEN IF m.real_name # None THEN Val(m.real_name) ELSE Val(m.profile_real_name)
    ELSE IF m.name # None
         THEN (IF m.real_name # None THEN Val(m.real_name) ELSE Val(m.name))
         ELSE (IF m.profile_real_name # None THEN Val(m.profile_real_name)
               ELSE <<"U","n","k","n","o","w","n">>)

RECURSIVE AddMembers(_, _)
AddMembers(d, ms) ==
    IF ms = <<>> THEN d
    ELSE AddMembers(DictSet(d, Head(ms).id, MemberName(Head(ms))), Tail(ms))

\* faulty variant of AddChannels: the directory is built anew from every page
AddChannelsLastPage(d, cs) == [i \in 1..Len(cs) |-> <<cs[i].id, cs[i].name>>]

RECURSIVE AddChannels(_, _)
AddChannels(d, cs) ==
    IF cs = <<>> THEN d
    ELSE AddChannels(DictSet(d, Head(cs).id, Head(cs).name), Tail(cs))

RECURSIVE AddGroups(_, _)
AddGroups(d, gs) ==
    IF gs = <<>> THEN d
    ELSE AddGroups(DictSet(d, Head(gs).id, Head(gs).handle), Tail(gs))

\* params of a directory request: `if cursor: params['cursor'] = cursor`
DirParams(base, c) == IF c # 0 THEN [base EXCEPT !.cursor = Some(c)] ELSE base

\* faulty variant of HasNextCursor: the next_cursor of a page is never seen
HasNextCursorNever(d) == FALSE

\* `data.get('response_metadata', {}).get('next_cursor')` is truthy
HasNextCursor(d) == Val(d).next_cursor # 0

\* faulty variant of AfterWorkspace: the directories are built again
AfterWorkspaceAgain == "users"

\* where the code goes after the directories are built; in
\* extract_slack_threads datetime.strptime(start_date, "%Y-%m-%d") comes next
\* and raises ValueError on a date of another format
AfterWorkspace ==
    IF entry = "workspace" THEN "done"
    ELSE IF Extracting /\ args.dates = "malformed" THEN "raised"
    ELSE "history"

UsersRequest ==
    /\ pc = "users"
    /\ fpc = "idle"
    /\ Call(USERS_LIST_URL, DirParams([NoParams EXCEPT !.limit = Some(DIR_LIMIT)], cursor),
            MAX_RETRIES, INITIAL_BACKOFF)
    /\ UNCHANGED <<envVars, runVars, faults, pc, dirVars, repVars, histVars, failed>>

UsersPage ==
    /\ pc = "users"
    /\ fpc = "ret"
    /\ PopFrame
    /\ IF Good(fres)
       THEN /\ users' = AddMembers(users, Val(fres).items)
            /\ IF HasNextCursor(fres)
               THEN cursor' = Val(fres).next_cursor /\ pc' = "users"
               ELSE cursor' = 0 /\ pc' = "channels"
            /\ UNCHANGED failed
       ELSE /\ users' = users
            /\ cursor' = 0
            /\ pc' = "channels"
            /\ failed' = failed \cup {USERS_LIST_URL}
    /\ UNCHANGED <<envVars, runVars, faults, channels, usergroups, repVars, histVars, calls>>

ChannelsRequest ==
    /\ pc = "channels"
    /\ fpc = "idle"
    /\ Call(CHANNELS_LIST_URL,
            DirParams([NoParams EXCEPT !.limit = Some(DIR_LIMIT),
                                       !.types = Some("public_channel,private_channel")],
                      cursor),
            MAX_RETRIES, INITIAL_BACKOFF)
    /\ UNCHANGED <<envVars, runVars, faults, pc, dirVars, repVars, histVars, failed>>

ChannelsPage ==
    /\ pc = "channels"
    /\ fpc = "ret"
    /\ PopFrame
    /\ IF Good(fres)
       THEN /\ channels' = AddChannels(channels, Val(fres).items)
            /\ IF HasNextCursor(fres)
               THEN cursor' = Val(fres).next_cursor /\ pc' = "channels"
               ELSE cursor' = 0 /\ pc' = "groups"
            /\ UNCHANGED failed
       ELSE /\ channels' = channels
            /\ cursor' = 0
            /\ pc' = "groups"
            /\ failed' = failed \cup {CHANNELS_LIST_URL}
    /\ UNCHANGED <<envVars, runVars, faults, users, usergroups, repVars, histVars, calls>>

GroupsRequest ==
    /\ pc = "groups"
    /\ fpc = "idle"
    /\ Call(USERGROUPS_LIST_URL, NoParams, MAX_RETRIES, INITIAL_BACKOFF)
    /\ UNCHANGED <<envVars, runVars, faults, pc, dirVars, repVars, histVars, failed>>

GroupsPage ==
    /\ pc = "groups"
    /\ fpc = "ret"
    /\ PopFrame
    /\ usergroups' = IF Good(fres) THEN AddGroups(usergroups, Val(fres).items) ELSE usergroups
    /\ failed' = IF Good(fres) THEN failed ELSE failed \cup {USERGROUPS_LIST_URL}
    /\ pc' = AfterWorkspace
    /\ UNCHANGED <<envVars, runVars, faults, cursor, users, channels, repVars, histVars, calls>>

----------------------------------------------------------------------------
(* fetch_thread_replies (test.py) and fetch_replies (app.py)               *)

\* faulty variant of CapReplies: the list is returned without the slice
CapRepliesNoSlice(rs) == rs

\* all_replies[:MAX_MESSAGES_PER_THREAD]
CapReplies(rs) == SubSeq(rs, 1, Min(Len(rs), MAX_MESSAGES_PER_THREAD))

\* `while len(all_replies) < MAX_MESSAGES_PER_THREAD`
RepliesLoopGoesOn(rs) == Len(rs) < MAX_MESSAGES_PER_THREAD

\* data["messages"][1:]
SkipParent(items) == IF items = <<>> THEN <<>> ELSE Tail(items)

\* faulty variant of RepliesContinue: the loop goes on after every good page
RepliesContinueAlways(d) == TRUE

\* `data.get('has_more') and data.get('response_metadata', {}).get('next_cursor')`
RepliesContinue(d) == Val(d).has_more /\ HasNextCursor(d)

\* replies_params = {"channel": channel_id, "ts": thread_ts, "limit": 100}
RepliesParams(ts) ==
    [NoParams EXCEPT !.channel = Some(channel_id), !.ts = Some(ts), !.limit = Some(DEFAULT_LIMIT)]

\* the call fetch_thread_replies(session, channel_id, ts): the state at its loop
RepliesEnter(ts) ==
    /\ thread_ts' = ts
    /\ replies_params' = RepliesParams(ts)
    /\ rcursor' = 0
    /\ all_replies' = <<>>
    /\ replies' = <<>>
    /\ pc' = "replies"

\* the loop test holds: `if cursor: replies_params['cursor'] = cursor`, the request
RepliesRequest ==
    /\ pc = "replies"
    /\ fpc = "idle"
    /\ RepliesLoopGoesOn(all_replies)
    /\ replies_params' = DirParams(replies_params, rcursor)
    /\ Call(CONVERSATIONS_REPLIES_URL, DirParams(replies_params, rcursor),
            MAX_RETRIES, INITIAL_BACKOFF)
    /\ UNCHANGED <<envVars, runVars, faults, pc, dirVars, thread_ts, rcursor, all_replies,
                   replies, histVars, failed>>

\* the loop test fails: return all_replies[:MAX_MESSAGES_PER_THREAD]
RepliesCapped ==
    /\ pc = "replies"
    /\ fpc = "idle"
    /\ ~RepliesLoopGoesOn(all_replies)
    /\ replies' = CapReplies(all_replies)
    /\ pc' = "replies_ret"
    /\ UNCHANGED <<envVars, runVars, faults, fetchVars, dirVars, thread_ts, replies_params,
                   rcursor, all_replies, histVars, calls, failed>>

\* the rest of the loop body after the request
RepliesPage ==
    /\ pc = "replies"
    /\ fpc = "ret"
    /\ PopFrame
    /\ IF Good(fres)
       THEN /\ all_replies' = all_replies \o SkipParent(Val(fres).items)
            /\ IF RepliesContinue(fres)
               THEN /\ rcursor' = Val(fres).next_cursor
                    /\ pc' = "replies"
                    /\ UNCHANGED replies
               ELSE /\ replies' = CapReplies(all_replies')
                    /\ pc' = "replies_ret"
                    /\ UNCHANGED rcursor
            /\ UNCHANGED failed
       ELSE /\ replies' = CapReplies(all_replies)
            /\ pc' = "replies_ret"
            /\ failed' = failed \cup {CONVERSATIONS_REPLIES_URL}
            /\ UNCHANGED <<all_replies, rcursor>>
    /\ UNCHANGED <<envVars, runVars, faults, dirVars, thread_ts, replies_params, histVars, calls>>

\* the direct call of fetch_thread_replies returns to its caller
RepliesDone ==
    /\ entry = "replies"
    /\ pc = "replies_ret"
    /\ pc' = "done"
    /\ UNCHANGED <<envVars, runVars, faults, fetchVars, dirVars, repVars, histVars, calls, failed>>

----------------------------------------------------------------------------
(* extract_slack_threads (test.py) and fetch_slack_messages (app.py):      *)
(* the history loop                                                        *)

\* the author the bot filter looks at
\*   test.py: message.get("user", message.get("subtype", ""))
\*   app.py:  message["user"], on any error message.get("subtype", "unknown")
FilterUser(m) ==
    IF m.user # None THEN Val(m.user)
    ELSE IF m.subtype # None THEN Val(m.subtype)
    ELSE IF entry = "app" THEN <<"u","n","k","n","o","w","n">> ELSE <<>>

\* faulty variant of IsRoot: the substring test without .lower()
IsRootCaseSensitive(user) == user # USLACKBOT /\ ~Contains(user, <<"b","o","t">>)

\* faulty variant of IsRoot: only the sentinel is tested
IsRootSentinelOnly(user) == user # USLACKBOT

\* `user != "USLACKBOT" and "bot" not in user.lower()`
IsRoot(user) == user # USLACKBOT /\ ~Contains(Lower(user), <<"b","o","t">>)

\* faulty variant of FetchesReplies: the replies of every root are fetched
FetchesRepliesAlways(m) == TRUE

\* the condition under which the replies of a root are fetched
\*   test.py: message.get("thread_ts") and message.get("reply_count", 0) > 0
\*   app.py:  message.get("thread_ts")
FetchesReplies(m) ==
    IF entry = "app"
    THEN m.thread_ts # None
    ELSE m.thread_ts # None /\ (IF m.reply_count = None THEN 0 ELSE Val(m.reply_count)) > 0

\* faulty variant of CapReached: `>` for `>=`
CapReachedLate(ts) ==
    /\ Extracting
    /\ max_threads # None
    /\ Val(max_threads) # 0
    /\ Len(ts) > Val(max_threads)

\* `max_threads and len(all_threads) >= max_threads`
CapReached(ts) ==
    /\ Extracting
    /\ max_threads # None
    /\ Val(max_threads) # 0
    /\ Len(ts) >= Val(max_threads)

InMessages == pc = "msgs" /\ mi <= Len(messages)

HistoryRequest ==
    /\ pc = "history"
    /\ fpc = "idle"
    /\ Call(CONVERSATIONS_HISTORY_URL, hparams, MAX_RETRIES, INITIAL_BACKOFF)
    /\ UNCHANGED <<envVars, runVars, faults, pc, dirVars, repVars, histVars, failed>>

\* faulty variant of HistoryGaveUp: the failure is raised
HistoryGaveUpRaises == "raised"

\* where the else branch of the history loop goes: it logs
\* "Error fetching messages. Exiting." / "Failed to fetch messages" and
\* breaks, so what follows the loop comes next
HistoryGaveUp == "format"

\* `if data and data["ok"]`: the page is taken, else the loop is left
HistoryPage ==
    /\ pc = "history"
    /\ fpc = "ret"
    /\ PopFrame
    /\ IF Good(fres)
       THEN /\ data' = fres
            /\ messages' = Val(fres).items
            /\ total_messages' = IF Extracting
                                 THEN total_messages + Len(Val(fres).items)
                                 ELSE total_messages
            /\ mi' = 1
            /\ pc' = "msgs"
            /\ UNCHANGED failed
       ELSE /\ pc' = HistoryGaveUp
            /\ failed' = failed \cup {CONVERSATIONS_HISTORY_URL}
            /\ UNCHANGED <<data, messages, total_messages, mi>>
    /\ UNCHANGED <<envVars, runVars, faults, dirVars, repVars, max_threads, hparams, thread,
                   all_threads, records, calls>>

\* a message the bot filter drops
MessageFiltered ==
    /\ InMessages
    /\ ~IsRoot(FilterUser(messages[mi]))
    /\ mi' = mi + 1
    /\ UNCHANGED <<envVars, runVars, faults, pc, fetchVars, dirVars, repVars, max_threads,
                   hparams, data, messages, thread, all_threads, total_messages,
                   records, calls, failed>>

\* faulty variant of AppendThread: all_threads.insert(0, thread)
AppendThreadFront(t) ==
    /\ all_threads' = <<t>> \o all_threads
    /\ thread' = <<>>
    /\ IF CapReached(<<t>> \o all_threads)
       THEN pc' = "page_end" /\ UNCHANGED mi
       ELSE pc' = "msgs" /\ mi' = mi + 1

\* all_threads.append(thread) and what follows it in the loop body
AppendThread(t) ==
    /\ all_threads' = Append(all_threads, t)
    /\ thread' = <<>>
    /\ IF CapReached(Append(all_threads, t))
       THEN pc' = "page_end" /\ UNCHANGED mi
       ELSE pc' = "msgs" /\ mi' = mi + 1

\* a root whose replies are not fetched
MessageSingle ==
    /\ InMessages
    /\ IsRoot(FilterUser(messages[mi]))
    /\ ~FetchesReplies(messages[mi])
    /\ AppendThread(<<messages[mi]>>)
    /\ UNCHANGED <<envVars, runVars, faults, fetchVars, dirVars, repVars, max_threads, hparams,
                   data, messages, total_messages, records, calls, failed>>

\* test.py: a root whose replies are fetched: fetch_thread_replies is called;
\* message["ts"] raises KeyError when the root carries no 'ts'
MessageThreaded ==
    /\ Extracting
    /\ InMessages
    /\ IsRoot(FilterUser(messages[mi]))
    /\ FetchesReplies(messages[mi])
    /\ thread' = <<messages[mi]>>
    /\ IF HasKey(messages[mi], "ts")
       THEN RepliesEnter(messages[mi].ts)
       ELSE pc' = "raised" /\ UNCHANGED repVars
    /\ UNCHANGED <<envVars, runVars, faults, fetchVars, dirVars, max_threads, hparams, data,
                   messages, mi, all_threads, total_messages, records, calls, failed>>

\* test.py: fetch_thread_replies has returned: `if replies: thread.extend(replies)`
ThreadAssembled ==
    /\ Extracting
    /\ pc = "replies_ret"
    /\ AppendThread(thread \o replies)
    /\ replies' = <<>>
    /\ all_replies' = <<>>
    /\ UNCHANGED <<envVars, runVars, faults, fetchVars, dirVars, thread_ts, replies_params,
                   rcursor, max_threads, hparams, data, messages, total_messages,
                   records, calls, failed>>

\* app.py: a root whose replies are fetched: the request of fetch_replies;
\* message["ts"] raises KeyError when the root carries no 'ts'
AppMessageThreaded ==
    /\ entry = "app"
    /\ InMessages
    /\ fpc = "idle"
    /\ IsRoot(FilterUser(messages[mi]))
    /\ FetchesReplies(messages[mi])
    /\ thread' = <<messages[mi]>>
    /\ IF HasKey(messages[mi], "ts")
       THEN /\ thread_ts' = messages[mi].ts
            /\ replies_params' = [NoParams EXCEPT !.channel = Some(channel_id),
                                                  !.ts = Some(messages[mi].ts)]
            /\ Call(CONVERSATIONS_REPLIES_URL,
                    [NoParams EXCEPT !.channel = Some(channel_id), !.ts = Some(messages[mi].ts)],
                    MAX_RETRIES, INITIAL_BACKOFF)
            /\ pc' = "app_replies"
       ELSE /\ pc' = "raised"
            /\ UNCHANGED <<thread_ts, replies_params, fetchVars, calls>>
    /\ UNCHANGED <<envVars, runVars, faults, dirVars, rcursor, all_replies, replies, max_threads,
                   hparams, data, messages, mi, all_threads, total_messages, records,
                   failed>>

\* app.py: fetch_replies returns data["messages"][1:] or [], the thread is appended
AppThreadAssembled ==
    /\ entry = "app"
    /\ pc = "app_replies"
    /\ fpc = "ret"
    /\ PopFrame
    /\ AppendThread(thread \o (IF Good(fres) THEN SkipParent(Val(fres).items) ELSE <<>>))
    /\ failed' = IF Good(fres) THEN failed ELSE failed \cup {CONVERSATIONS_REPLIES_URL}
    /\ UNCHANGED <<envVars, runVars, faults, dirVars, repVars, max_threads, hparams, data,
                   messages, total_messages, records, calls>>

\* faulty variant of LastTs: messages[0]['ts']
LastTsFirst(ms) == ms[1].ts

\* messages[-1]['ts']
LastTs(ms) == ms[Len(ms)].ts

\* faulty variant of Advance: messages[0] for messages[-1], the cursor kept only
\* when it is the first one
AdvanceStale(p, d, ms) ==
    IF entry = "app"
    THEN [p EXCEPT !.latest = Some(ms[1].ts)]
    ELSE IF Val(d).next_cursor # 0
         THEN (IF p.cursor = None THEN [p EXCEPT !.cursor = Some(Val(d).next_cursor)] ELSE p)
         ELSE [p EXCEPT !.cursor = None, !.latest = Some(ms[1].ts)]

\* the params of the next history request after a page with has_more
\*   test.py: params["cursor"] = next_cursor; if not params["cursor"]:
\*            params["latest"] = messages[-1]['ts']
\*   app.py:  params["latest"] = data["messages"][-1]["ts"]
Advance(p, d, ms) ==
    IF entry = "app"
    THEN [p EXCEPT !.latest = Some(LastTs(ms))]
    ELSE IF Val(d).next_cursor # 0
         THEN [p EXCEPT !.cursor = Some(Val(d).next_cursor)]
         ELSE [p EXCEPT !.cursor = None, !.latest = Some(LastTs(ms))]

\* messages[-1]['ts'] raises IndexError on an empty page and KeyError on a
\* last message without 'ts'
AdvanceRaises(d, ms) ==
    /\ entry = "app" \/ Val(d).next_cursor = 0
    /\ ms = <<>> \/ ~HasKey(ms[Len(ms)], "ts")

\* after the for loop over the page (or its break): stop at the cap, go to the
\* next page when the page says has_more, else leave the loop
PageEnd ==
    /\ \/ pc = "page_end"
       \/ pc = "msgs" /\ mi > Len(messages)
    /\ IF CapReached(all_threads)
       THEN pc' = "format" /\ UNCHANGED hparams
       ELSE IF Val(data).has_more
            THEN IF AdvanceRaises(data, messages)
                 THEN pc' = "raised" /\ UNCHANGED hparams
                 ELSE pc' = "history" /\ hparams' = Advance(hparams, data, messages)
            ELSE pc' = "format" /\ UNCHANGED hparams
    /\ UNCHANGED <<envVars, runVars, faults, fetchVars, dirVars, repVars, max_threads, data,
                   messages, mi, thread, all_threads, total_messages, records, calls,
                   failed>>

----------------------------------------------------------------------------
(* resolve_names (test.py and app.py)                                      *)

Digits == <<"0","1","2","3","4","5","6","7","8","9">>

\* faulty variant of IsIdChar: the class [A-Za-z0-9]
IsIdCharAnyCase(c) ==
    \/ \E i \in 1..Len(UpperChars) : UpperChars[i] = c
    \/ \E i \in 1..Len(LowerChars) : LowerChars[i] = c
    \/ \E i \in 1..Len(Digits) : Digits[i] = c

\* the character class [A-Z0-9]
IsIdChar(c) ==
    \/ \E i \in 1..Len(UpperChars) : UpperChars[i] = c
    \/ \E i \in 1..Len(Digits) : Digits[i] = c

\* the length of the longest run of [A-Z0-9] that starts at position j of s
RECURSIVE RunLen(_, _)
RunLen(s, j) == IF j <= Len(s) /\ IsIdChar(s[j]) THEN 1 + RunLen(s, j + 1) ELSE 0

SUBTEAM == <<"s","u","b","t","e","a","m","^","S">>

\* the length of the match of U[A-Z0-9]+|C[A-Z0-9]+|subteam\^S[0-9A-Z]+ that
\* starts at position j of s and is followed by '>'; 0 when there is none.
\* '>' is not in the class, so only the longest run can be followed by it.
IdLen(s, j) ==
    LET head == IF j <= Len(s) /\ s[j] \in {"U", "C"} THEN 1
                ELSE IF j + Len(SUBTEAM) - 1 <= Len(s) /\ SubSeq(s, j, j + Len(SUBTEAM) - 1) = SUBTEAM
                     THEN Len(SUBTEAM)
                     ELSE 0
        run  == RunLen(s, j + head)
    IN  IF head > 0 /\ run > 0 /\ j + head + run <= Len(s) /\ s[j + head + run] = ">"
        THEN head + run
        ELSE 0

\* the length of the match of the pattern <([@#!])(...)> at position i of s; 0: none
MatchLen(s, i) ==
    IF i + 1 <= Len(s) /\ s[i] = "<" /\ s[i + 1] \in {"@", "#", "!"} /\ IdLen(s, i + 2) > 0
    THEN IdLen(s, i + 2) + 3
    ELSE 0

\* group_id.split("^")[1].strip() of an identifier that holds a '^'
AfterCaret(id) ==
    LET k == CHOOSE i \in 1..Len(id) : id[i] = "^" /\ \A j \in 1..(i - 1) : id[j] # "^"
        rest == SubSeq(id, k + 1, Len(id))
        stop == IF \E i \in 1..Len(rest) : rest[i] = "^"
                THEN (CHOOSE i \in 1..Len(rest) : rest[i] = "^" /\ \A j \in 1..(i - 1) : rest[j] # "^") - 1
                ELSE Len(rest)
    IN  SubSeq(rest, 1, stop)

\* replace_id raises: app.py indexes split("^")[1] of a '!' token without '^'
ReplaceRaises(sigil, id, app) == app /\ sigil = "!" /\ ~Contains(id, <<"^">>)

\* faulty variant of ReplaceId: a miss leaves the sigil alone
ReplaceIdDropsMiss(full, sigil, id, us, cs, gs) ==
    CASE sigil = "@" -> <<"@">> \o DictGet(us, id, <<>>)
      [] sigil = "#" -> <<"#">> \o DictGet(cs, id, <<>>)
      [] sigil = "!" /\ Contains(id, <<"^">>) ->
            <<"@">> \o DictGet(gs, AfterCaret(id), <<>>)
      [] OTHER -> full

\* replace_id: the replacement of the token `full` with the groups sigil and id
ReplaceId(full, sigil, id, us, cs, gs) ==
    CASE sigil = "@" -> <<"@">> \o DictGet(us, id, id)
      [] sigil = "#" -> <<"#">> \o DictGet(cs, id, id)
      [] sigil = "!" /\ Contains(id, <<"^">>) ->
            <<"@">> \o DictGet(gs, AfterCaret(id), AfterCaret(id))
      [] OTHER -> full

\* re.sub(pattern, replace_id, text) from position i on: the leftmost matches,
\* not overlapping; None when replace_id raises
RECURSIVE SubFrom(_, _, _, _, _, _)
SubFrom(s, i, us, cs, gs, app) ==
    IF i > Len(s) THEN Some(<<>>)
    ELSE LET n == MatchLen(s, i) IN
         IF n = 0
         THEN LET rest == SubFrom(s, i + 1, us, cs, gs, app) IN
              IF rest = None THEN None ELSE Some(<<s[i]>> \o Val(rest))
         ELSE LET full  == SubSeq(s, i, i + n - 1)
                  sigil == s[i + 1]
                  id    == SubSeq(s, i + 2, i + n - 2)
              IN  IF ReplaceRaises(sigil, id, app) THEN None
                  ELSE LET rest == SubFrom(s, i + n, us, cs, gs, app) IN
                       IF rest = None THEN None
                       ELSE Some(ReplaceId(full, sigil, id, us, cs, gs) \o Val(rest))

ResolveNames(s, us, cs, gs, app) == SubFrom(s, 1, us, cs, gs, app)

\* the direct call of resolve_names(text, users, channels, usergroups)
ResolveCall ==
    /\ entry \in {"resolve_names", "app_resolve_names"}
    /\ pc = "resolve"
    /\ resolved' = ResolveNames(text, users, channels, usergroups, entry = "app_resolve_names")
    /\ pc' = IF resolved' = None THEN "raised" ELSE "done"
    /\ UNCHANGED <<envVars, pipeVars, llmVars, faults, fetchVars, dirVars, repVars, histVars, calls,
                   failed>>

----------------------------------------------------------------------------
(* The text of a record: clean_text(resolve_names(text, ...)) in            *)
(* format_thread_data, resolve_names(text, ...) in fetch_slack_messages     *)

\* the class [\x00-\x08\x0b-\x0c\x0e-\x1f\x7f]; the texts hold \x0c of it
IsControl(c) == c = "\f"

\* the characters str.split() splits at, once the control characters are gone
IsSpace(c) == c \in {" ", "\t", "\n", "\r"}

\* re.sub(r'[\x00-\x08\x0b-\x0c\x0e-\x1f\x7f]', '', text)
StripControl(s) == SelectSeq(s, LAMBDA c : ~IsControl(c))

\* ' '.join(text.split())
Collapse(s) ==
    LET F[i \in 0..Len(s)] ==
            IF i = 0 THEN <<>>
            ELSE IF IsSpace(s[i]) THEN F[i - 1]
            ELSE IF i > 1 /\ IsSpace(s[i - 1]) /\ F[i - 1] # <<>>
                 THEN F[i - 1] \o <<" ", s[i]>>
                 ELSE Append(F[i - 1], s[i])
    IN  F[Len(s)]

\* clean_text(text)
CleanText(s) == IF s = <<>> THEN <<>> ELSE Collapse(StripControl(s))

\* the position of the '>' that ends a match of `open`.*?> starting at
\* position i of s ('.' matches no newline); 0 when there is no match at i
TagEnd(s, i, open) ==
    LET from == i + Len(open)
        ends == {j \in from..Len(s) :
                    /\ s[j] = ">"
                    /\ \A k \in from..(j - 1) : s[k] # "\n" /\ s[k] # ">"}
    IN  IF i + Len(open) - 1 <= Len(s) /\ SubSeq(s, i, i + Len(open) - 1) = open /\ ends # {}
        THEN CHOOSE j \in ends : TRUE
        ELSE 0

HTTPS_TAG == <<"<","h","t","t","p","s",":">>
MISC_TAG == <<"<","!">>

\* re.sub(open + ".*?>", " ", text) from position i on
RECURSIVE SubTags(_, _, _)
SubTags(s, i, open) ==
    IF i > Len(s) THEN <<>>
    ELSE IF TagEnd(s, i, open) > 0 THEN <<" ">> \o SubTags(s, TagEnd(s, i, open) + 1, open)
    ELSE <<s[i]>> \o SubTags(s, i + 1, open)

\* remove_hyperlink(text): re.sub("<https:.*?>", " ", text)
RemoveHyperlink(s) == SubTags(s, 1, HTTPS_TAG)

\* remove_misc_tags(text): re.sub("<!.*?>", " ", text)
RemoveMiscTags(s) == SubTags(s, 1, MISC_TAG)

\* the argument of clean_text / the text of the handler's record is evaluated:
\* resolve_names(parent.get('text', ''), users, channels, usergroups)
TextResolve ==
    /\ entry \in {"format_text", "app_format_text"}
    /\ pc = "resolve_text"
    /\ resolved' = ResolveNames(text, users, channels, usergroups, entry = "app_format_text")
    /\ pc' = IF resolved' = None THEN "raised"
             ELSE IF entry = "format_text" THEN "clean_text" ELSE "done"
    /\ UNCHANGED <<envVars, pipeVars, llmVars, faults, fetchVars, dirVars, repVars, histVars, calls,
                   failed>>

\* clean_text is applied to the resolved text
TextClean ==
    /\ entry = "format_text"
    /\ pc = "clean_text"
    /\ resolved' = Some(CleanText(Val(resolved)))
    /\ pc' = "done"
    /\ UNCHANGED <<envVars, pipeVars, llmVars, faults, fetchVars, dirVars, repVars, histVars, calls,
                   failed>>

----------------------------------------------------------------------------
(* format_thread_data (test.py) and the output loop of fetch_slack_messages *)

\* parent.get('user', 'Unknown')
UserOr(m, default) == IF m.user # None THEN Val(m.user) ELSE default

SeqToSet(s) == {s[i] : i \in 1..Len(s)}

\* the record of a thread: its fields that do not depend on the text
\*   test.py: timestamp, user, thread_ts, reply_count, participants
\*   app.py:  timestamp, len(replies_array)
FormatThread(t) ==
    LET parent == t[1]
        rest   == Tail(t)
    IN  IF entry = "app"
        THEN [timestamp |-> parent.ts, reply_count |-> Len(rest)]
        ELSE [timestamp |-> parent.ts,
              user |-> DictGet(users, UserOr(parent, <<"U","n","k","n","o","w","n">>),
                               UserOr(parent, <<"U","n","k","n","o","w","n">>)),
              thread_ts |-> IF parent.thread_ts # None THEN Val(parent.thread_ts) ELSE parent.ts,
              reply_count |-> Len(rest),
              participants |->
                  Cardinality({UserOr(parent, <<"U","n","k","n","o","w","n">>)}
                              \cup {UserOr(r, <<>>) : r \in SeqToSet(rest)})]

\* formatting the thread raises KeyError
\*   test.py: parent['ts'], reply['ts']
\*   app.py:  thread[0]['text'], thread[0]['ts'], reply['text'], reply['ts']
FormatRaises(t) ==
    \E i \in 1..Len(t) :
        \/ ~HasKey(t[i], "ts")
        \/ entry = "app" /\ ~HasKey(t[i], "text")

\* one record per thread, in the order of all_threads; an exception of the
\* formatting leaves the function with no record returned
Format ==
    /\ pc = "format"
    /\ IF \E i \in 1..Len(all_threads) : FormatRaises(all_threads[i])
       THEN pc' = "raised" /\ UNCHANGED records
       ELSE /\ records' = [i \in 1..Len(all_threads) |-> FormatThread(all_threads[i])]
            /\ pc' = "done"
    /\ UNCHANGED <<envVars, runVars, faults, fetchVars, dirVars, repVars, max_threads, hparams,
                   data, messages, mi, thread, all_threads, total_messages, calls, failed>>

----------------------------------------------------------------------------
(* The validation of the body in fetch_slack_messages (app.py) *)

\* `if not token or not channel_id or not start_date_str or not end_date_str`
MissingParameter ==
    args.token = "missing" \/ args.channel = "missing" \/ args.dates = "missing"

\* the handler answers 400 to a body without a required parameter or with a
\* date strptime does not accept, and goes on to the directories otherwise
AppValidate ==
    /\ entry = "app"
    /\ pc = "validate"
    /\ pc' = IF MissingParameter \/ args.dates = "malformed" THEN "rejected" ELSE "users"
    /\ UNCHANGED <<envVars, runVars, faults, fetchVars, dirVars, repVars, histVars, calls,
                   failed>>

----------------------------------------------------------------------------
(* run_extraction_pipeline (test.py) *)

\* faulty variant of SkipsRun: the raw file of an earlier run is not looked at
SkipsRunNever == FALSE

\* `skip_if_exists and os.path.exists(raw_output_path)`
SkipsRun == args.skip_if_exists /\ "raw" \in files

\* generate_filename raises ValueError on a malformed date, ahead of the try;
\* `if skip_if_exists and os.path.exists(raw_output_path)` returns at once;
\* else the locals are set and extract_slack_threads is called
RunStart ==
    /\ entry = "run"
    /\ pc = "run_start"
    /\ IF args.dates = "malformed"
       THEN pc' = "run_raised" /\ UNCHANGED <<status, raw_output_path>>
       ELSE IF SkipsRun
       THEN pc' = "skipped" /\ UNCHANGED <<status, raw_output_path>>
       ELSE pc' = "users" /\ status' = "failed" /\ raw_output_path' = "raw"
    /\ UNCHANGED <<envVars, resolved, llmVars, threads_count, error_message, files, written,
                   log, appended, faults, fetchVars, dirVars, repVars, histVars, calls, failed>>

\* faulty variant of WritesRaw: the raw file is written whatever became of the
\* extraction
WritesRawAlways(p, n) == TRUE

\* df.to_csv(raw_output_path) is reached: extract_slack_threads returned and
\* `threads_count > 0`
WritesRaw(p, n) == p = "done" /\ n > 0

\* extract_slack_threads has returned or raised: the raw file is saved when
\* there are threads, and the status is set unless the LLM step comes next
RunSave ==
    /\ entry = "run"
    /\ pc \in {"done", "raised"}
    /\ threads_count' = IF pc = "done" THEN Len(records) ELSE 0
    /\ IF WritesRaw(pc, Len(records))
       THEN /\ files' = files \cup {"raw"}
            /\ written' = written \cup {"raw"}
       ELSE UNCHANGED <<files, written>>
    /\ IF pc = "raised"
       THEN /\ status' = "failed" /\ raw_output_path' = ""
            /\ error_message' = "extract_slack_threads"
            /\ pc' = "log"
       ELSE IF Len(records) > 0
       THEN IF args.process_with_llm_flag
            THEN pc' = "llm" /\ UNCHANGED <<status, raw_output_path, error_message>>
            ELSE /\ status' = "success" /\ pc' = "log"
                 /\ UNCHANGED <<raw_output_path, error_message>>
       ELSE /\ status' = "no_data" /\ raw_output_path' = "" /\ pc' = "log"
            /\ UNCHANGED error_message
    /\ UNCHANGED <<envVars, resolved, llmVars, log, appended, faults, fetchVars, dirVars, repVars,
                   histVars, calls, failed>>

\* what process_with_llm can come to: an exception (of load_model, which is
\* ahead of its try), no conversation processed, some conversations processed
LLMOutcomes == {"raises", "none", "some"}

\* process_with_llm(raw_output_path, summary_output_path) and the status after it
RunLLM ==
    /\ entry = "run"
    /\ pc = "llm"
    /\ \E o \in LLMOutcomes :
          /\ status' = CASE o = "some" -> "success"
                          [] o = "none" -> "partial_success"
                          [] OTHER -> "failed"
          /\ raw_output_path' = IF o = "raises" THEN "" ELSE raw_output_path
          /\ error_message' = IF o = "raises" THEN "process_with_llm" ELSE error_message
          /\ files' = IF o = "some" THEN files \cup {"summary"} ELSE files
          /\ written' = IF o = "some" THEN written \cup {"summary"} ELSE written
    /\ pc' = "log"
    /\ UNCHANGED <<envVars, resolved, llmVars, threads_count, log, appended, faults, fetchVars,
                   dirVars, repVars, histVars, calls, failed>>

\* the default of the parameter max_log_entries of log_extraction_run
DefaultMaxLogEntries == 1000

\* faulty variant of LastN: log_data[:n]
FirstN(d, n) == SubSeq(d, 1, Min(n, Len(d)))

\* log_data[-n:]: the last n items, and the whole list for n = 0
LastN(d, n) == IF n = 0 THEN d ELSE SubSeq(d, Max(1, Len(d) - n + 1), Len(d))

\* what log_extraction_run(log_entry, max_log_entries) writes to a log file
\* that holds `stored`
StoredLog(stored, log_entry, max_log_entries) ==
    LET log_data == Append(stored, log_entry) IN
    IF Len(log_data) > max_log_entries THEN LastN(log_data, max_log_entries) ELSE log_data

\* create_log_entry and log_extraction_run(log_entry)
RunLog ==
    /\ entry = "run"
    /\ pc = "log"
    /\ LET log_entry == [status |-> status, threads_count |-> threads_count,
                         raw_output_file |-> raw_output_path,
                         error |-> error_message]
       IN  /\ log' = StoredLog(log, log_entry, args.max_log_entries)
           /\ appended' = Append(appended, log_entry)
    /\ pc' = "run_done"
    /\ UNCHANGED <<envVars, resolved, llmVars, status, threads_count, raw_output_path, error_message,
                   files, written, faults, fetchVars, dirVars, repVars, histVars, calls,
                   failed>>

\* the log entry of the k-th direct call
LogEntryOf(k) == [status |-> "success", threads_count |-> k, raw_output_file |-> "raw",
                  error |-> ""]

\* a direct call log_extraction_run(log_entry, max_log_entries)
LogExtractionRun ==
    /\ entry = "log"
    /\ pc = "log_call"
    /\ Len(appended) < MaxLogCalls
    /\ log' = StoredLog(log, LogEntryOf(Len(appended) + 1), args.max_log_entries)
    /\ appended' = Append(appended, LogEntryOf(Len(appended) + 1))
    /\ UNCHANGED <<envVars, resolved, llmVars, status, threads_count, raw_output_path, error_message,
                   files, written, faults, pc, fetchVars, dirVars, repVars, histVars, calls,
                   failed>>

----------------------------------------------------------------------------
(* process_with_llm (test.py): the loop over the rows of the raw file *)

MAX_CONVERSATION_LENGTH == 30000

\* A row of the raw file: the length of remove_hyperlink(row['conversation'])
\* and what the two llm.generate_response calls come to: an issue and four
\* lines of metadata, the answer "NA", an exception, or metadata that does
\* not unpack into four lines (ValueError)
Answers == {"issue", "NA", "raises", "bad_metadata"}
RowKinds ==
    [len : {MAX_CONVERSATION_LENGTH, MAX_CONVERSATION_LENGTH + 1}, answer : Answers]

\* `if len(conv) > MAX_CONVERSATION_LENGTH` or `if "NA" in issue_extraction`:
\* skipped_count += 1; continue
SkipsRow(row) == row.len > MAX_CONVERSATION_LENGTH \/ row.answer = "NA"

\* the body of the try raises: `except Exception: error_count += 1`
RowRaises(row) == ~SkipsRow(row) /\ row.answer \in {"raises", "bad_metadata"}

\* faulty variant of AppendsRow: the skips do not `continue`
AppendsRowSkipped(row) == ~RowRaises(row)

\* summary_data.append(...) and processed_count += 1 are reached
AppendsRow(row) == ~SkipsRow(row) /\ ~RowRaises(row)

\* one iteration of `for idx, row in df.iterrows()`
LLMRow ==
    /\ entry = "llm"
    /\ pc = "llm_loop"
    /\ idx < Len(df)
    /\ LET row == df[idx + 1] IN
       /\ skipped_count' = IF SkipsRow(row) THEN skipped_count + 1 ELSE skipped_count
       /\ error_count' = IF RowRaises(row) THEN error_count + 1 ELSE error_count
       /\ processed_count' = IF AppendsRow(row) THEN processed_count + 1 ELSE processed_count
       /\ summary_data' = IF AppendsRow(row) THEN Append(summary_data, idx + 1)
                          ELSE summary_data
    /\ idx' = idx + 1
    /\ UNCHANGED <<envVars, resolved, pipeVars, df, summary_rows, faults, pc, fetchVars,
                   dirVars, repVars, histVars, calls, failed>>

\* the loop is over: `if summary_data: summary_df.to_csv(summary_file_path)`,
\* and the statistics are returned
LLMSave ==
    /\ entry = "llm"
    /\ pc = "llm_loop"
    /\ idx = Len(df)
    /\ IF summary_data # <<>>
       THEN /\ summary_rows' = Some(Len(summary_data))
            /\ files' = files \cup {"summary"}
            /\ written' = written \cup {"summary"}
       ELSE UNCHANGED <<summary_rows, files, written>>
    /\ pc' = "llm_ret"
    /\ UNCHANGED <<envVars, resolved, status, threads_count, raw_output_path, error_message,
                   log, appended, df, idx, processed_count, skipped_count, error_count,
                   summary_data, faults, fetchVars, dirVars, repVars, histVars, calls,
                   failed>>

----------------------------------------------------------------------------
(* What the log of requests and the API say about a finished loop *)

\* the requests of one pagination loop: those to `u` (for a thread, with its ts)
LoopCalls(u, ts) == SelectSeq(calls, LAMBDA c : c.url = u /\ c.params.ts = ts)

\* ceil(n / p)
CeilDiv(n, p) == (n + p - 1) \div p

\* the page requests that serve n items in pages of p: ceil(n/p), and one more
\* for the terminal empty page (an empty listing; a last page that was full
\* when the API announces a next page after every full page)
PagesFor(n, p) ==
    IF n = 0 THEN 1
    ELSE CeilDiv(n, p) + (IF api.extra /\ n % p = 0 THEN 1 ELSE 0)

DirPageSize == Min(DIR_LIMIT, api.dirPage)
HistPageSize == Min(DEFAULT_LIMIT, api.histPage)
RepPageSize == Min(DEFAULT_LIMIT, api.repPage)

Ids(items) == [i \in 1..Len(items) |-> items[i].id]
Roots(ts) == [i \in 1..Len(ts) |-> ts[i][1]]

\* the messages of the history the API holds that are in the requested range
InRange == SelectSeq(api.hist, LAMBDA m : m.ts > Val(hparams.oldest))

\* position of the message with timestamp t in the history the API holds
PosOf(t) == CHOOSE i \in 1..Len(api.hist) : api.hist[i].ts = t

InPipeline == entry \in {"extract", "app"}
UsersLoopOver ==
    entry \in {"workspace", "extract", "app"} /\ pc \notin {"validate", "rejected", "users"}
ChannelsLoopOver == UsersLoopOver /\ pc # "channels"
HistoryLoopOver == InPipeline /\ pc \in {"format", "done"}
RepliesLoopOver ==
    \/ entry \in {"replies", "extract"} /\ pc = "replies_ret"
    \/ entry = "replies" /\ pc = "done"
NoCap == max_threads = None \/ Val(max_threads) = 0

----------------------------------------------------------------------------
(* C1..C3: make_request_with_backoff *)

\* a call that returned after a GET answered 429: every GET of the call did,
\* since any other answer ends the call
GaveUp == fpc = "ret" /\ lastStatus = "429"

\* C1: when every GET answers 429 and max_retries >= 1, the call makes exactly
\* max_retries GETs, sleeps exactly max_retries - 1 times, never sleeps after
\* the last attempt, and returns None
C1_ExactAttempts ==
    /\ (fpc \in {"get", "sleep"} /\ gets > 0) => lastStatus = "429"
    /\ fpc = "sleep" => attempt < max_retries - 1
    /\ (GaveUp /\ max_retries >= 1) =>
          /\ gets = max_retries
          /\ sleeps = max_retries - 1
          /\ fres = None

C1_Witness ==
    /\ GaveUp
    /\ max_retries = MAX_RETRIES
    /\ gets = MAX_RETRIES
    /\ sleeps = MAX_RETRIES - 1

\* the bounds of a wait after the attempt with 0-based index a: the jitter is
\* between 0 and 1 time-unit (JitterDen units)
WaitInBounds(w, a) ==
    /\ w >= initial_backoff * Pow2(a) * JitterDen
    /\ w <= initial_backoff * Pow2(a) * JitterDen + JitterDen

\* C2: the wait after the rate-limited attempt a is initial_backoff * 2^a + j
\* with 0 <= j <= 1, and the last wait before giving up under repeated 429s is
\* initial_backoff * 2^(max_retries-2) + j
C2_BackoffBounds ==
    /\ fpc = "sleep" => WaitInBounds(backoff_time, attempt)
    /\ (fpc \in {"get", "ret"} /\ sleeps > 0) => WaitInBounds(lastSleep, sleeps - 1)
    /\ (GaveUp /\ max_retries >= 2) => WaitInBounds(lastSleep, max_retries - 2)

C2_Witness ==
    /\ GaveUp
    /\ max_retries = MAX_RETRIES
    /\ lastSleep = INITIAL_BACKOFF * Pow2(MAX_RETRIES - 2) * JitterDen + JitterDen

\* C3: a GET that ends in a non-429 HTTP error or a transport failure ends the
\* call in that step with None, without a sleep; after the return no GET and no
\* sleep of the call follows; on the first attempt exactly one GET was made
C3_AbortsAtOnce ==
    [][ /\ (fpc = "get" /\ gets' = gets + 1 /\ lastStatus' \in {"http_error", "transport"})
           => /\ fpc' = "ret"
              /\ fres' = None
              /\ sleeps' = sleeps
              /\ (sleeps = 0 => gets' = 1)
        /\ fpc = "ret"
           => \/ fpc' = "ret" /\ gets' = gets /\ sleeps' = sleeps /\ fres' = fres
              \/ fpc' = "idle"
      ]_vars

C3_Witness ==
    /\ fpc = "ret"
    /\ lastStatus \in {"http_error", "transport"}
    /\ gets = 1
    /\ sleeps = 0
    /\ fres = None

----------------------------------------------------------------------------
(* C4, C5: the pagination loops *)

UsersExhaustive ==
    (UsersLoopOver /\ USERS_LIST_URL \notin failed) =>
        /\ DictKeys(users) = Ids(api.users)
        /\ Len(LoopCalls(USERS_LIST_URL, None)) = PagesFor(Len(api.users), DirPageSize)

ChannelsExhaustive ==
    (ChannelsLoopOver /\ CHANNELS_LIST_URL \notin failed) =>
        /\ DictKeys(channels) = Ids(api.channels)
        /\ Len(LoopCalls(CHANNELS_LIST_URL, None)) = PagesFor(Len(api.channels), DirPageSize)

HistoryExhaustive ==
    (HistoryLoopOver /\ CONVERSATIONS_HISTORY_URL \notin failed /\ NoCap) =>
        /\ entry = "extract" => total_messages = Len(InRange)
        /\ Roots(all_threads) = SelectSeq(InRange, LAMBDA m : IsRoot(FilterUser(m)))
        /\ Len(LoopCalls(CONVERSATIONS_HISTORY_URL, None)) = PagesFor(Len(InRange), HistPageSize)

\* the replies loop, for a thread of fewer than `limit` replies
RepliesExhaustiveBelow(limit) ==
    (RepliesLoopOver /\ CONVERSATIONS_REPLIES_URL \notin failed /\ HasThread(thread_ts)
        /\ ThreadAt(thread_ts).n < limit) =>
        /\ replies = RepliesListed(thread_ts)
        /\ Len(LoopCalls(CONVERSATIONS_REPLIES_URL, Some(thread_ts)))
              = PagesFor(ThreadAt(thread_ts).n, RepPageSize)

\* C4 as stated: every loop, the replies loop included, collects the N items
\* of any listing in the order served with ceil(N/P) requests (and the
\* terminal page)
C4_AsStated ==
    /\ UsersExhaustive
    /\ ChannelsExhaustive
    /\ HistoryExhaustive
    /\ RepliesExhaustiveBelow(MaxThreadReplies + 2)

\* C4 amended: the users, channels and history loops (no max_threads cap) do;
\* the replies loop does for a thread of fewer than MAX_MESSAGES_PER_THREAD
\* replies, and a thread of exactly that many is collected whole
C4_Exhaustive ==
    /\ UsersExhaustive
    /\ ChannelsExhaustive
    /\ HistoryExhaustive
    /\ RepliesExhaustiveBelow(MAX_MESSAGES_PER_THREAD)
    /\ (RepliesLoopOver /\ CONVERSATIONS_REPLIES_URL \notin failed /\ HasThread(thread_ts)
           /\ ThreadAt(thread_ts).n = MAX_MESSAGES_PER_THREAD)
          => replies = RepliesListed(thread_ts)

C4_Witness ==
    /\ entry = "extract"
    /\ pc = "done"
    /\ failed = {}
    /\ NoCap
    /\ Len(api.hist) = MaxHist
    /\ HistPageSize = 1
    /\ ~api.histCursors
    /\ Len(LoopCalls(CONVERSATIONS_HISTORY_URL, None)) = MaxHist
    /\ Len(all_threads) = MaxHist

\* the timestamps a page holds (for a thread, without the parent)
PageItems(c) ==
    LET items == Serve(c.url, c.params).items IN
    IF c.url = CONVERSATIONS_REPLIES_URL THEN SkipParent(items) ELSE items

\* the listing a request pages through
Listing(c) ==
    CASE c.url = USERS_LIST_URL -> api.users
      [] c.url = CHANNELS_LIST_URL -> api.channels
      [] c.url = CONVERSATIONS_HISTORY_URL -> api.hist
      [] c.url = CONVERSATIONS_REPLIES_URL ->
            IF HasThread(Val(c.params.ts)) THEN RepliesListed(Val(c.params.ts)) ELSE <<>>
      [] OTHER -> <<>>

IndexIn(list, x) == CHOOSE i \in 1..Len(list) : list[i] = x

\* request b is the request after a in a loop: b's page starts right after
\* a's page in the listing, or is empty when a's page ended the listing
FollowsOn(a, b) ==
    LET pa == PageItems(a)
        pb == PageItems(b)
        l  == Listing(a)
    IN  /\ pa # <<>>
        /\ IF pb = <<>> THEN pa[Len(pa)] = l[Len(l)]
           ELSE IndexIn(l, pb[1]) = IndexIn(l, pa[Len(pa)]) + 1

\* the continuation state the page of request a produced, put into a's params:
\* its next_cursor, else the ts of its last item; the history loop of app.py
\* reads no cursor and always takes the ts of the last item
Continued(a) ==
    LET d == Serve(a.url, a.params) IN
    IF entry = "app" /\ a.url = CONVERSATIONS_HISTORY_URL
    THEN [a.params EXCEPT !.latest = Some(d.items[Len(d.items)].ts)]
    ELSE IF d.next_cursor # 0
    THEN [a.params EXCEPT !.cursor = Some(d.next_cursor)]
    ELSE [a.params EXCEPT !.cursor = None, !.latest = Some(d.items[Len(d.items)].ts)]

SameLoop(a, b) == a.url = b.url /\ a.params.ts = b.params.ts

\* a request has just been issued: the log of requests grows only here, by
\* one request at its end
JustIssued == entry # "fetcher" /\ fpc = "get" /\ gets = 0

\* the requests of the loop of the request issued last that came before it
Earlier == {i \in 1..(Len(calls) - 1) : SameLoop(calls[i], calls[Len(calls)])}

\* C5: in every loop the request after a successful page carries exactly the
\* continuation state that page produced (its next_cursor, else the ts of its
\* last item), and its page is the next one of the listing: none is requested
\* twice, none is skipped
C5_Continuation ==
    (JustIssued /\ Earlier # {}) =>
        LET prev == CHOOSE i \in Earlier : \A j \in Earlier : j <= i
            last == calls[Len(calls)]
        IN  /\ FollowsOn(calls[prev], last)
            /\ last.params = Continued(calls[prev])

C5_Witness ==
    /\ entry = "extract"
    /\ pc = "done"
    /\ failed = {}
    /\ Len(LoopCalls(CONVERSATIONS_HISTORY_URL, None)) >= 2
    /\ \E i \in 1..Len(calls) :
          calls[i].url = CONVERSATIONS_HISTORY_URL /\ calls[i].params.cursor # None
    /\ \E t \in api.threads :
          Len(LoopCalls(CONVERSATIONS_REPLIES_URL, Some(t.ts))) >= 2

----------------------------------------------------------------------------
(* C6..C10: the thread assembler *)

\* C6: with a positive max_threads the number of threads never exceeds it, and
\* once it is reached no further message of the page is processed and no
\* further request is made
C6_MaxThreads ==
    /\ [](entry = "extract" /\ max_threads # None /\ Val(max_threads) > 0
             => Len(all_threads) <= Val(max_threads))
    /\ [][ (entry = "extract" /\ max_threads # None /\ Val(max_threads) > 0
               /\ Len(all_threads) = Val(max_threads))
           => (all_threads' = all_threads /\ mi' = mi /\ calls' = calls) ]_vars

C6_Witness ==
    /\ entry = "extract"
    /\ pc = "done"
    /\ max_threads = Some(1)
    /\ Len(all_threads) = 1
    /\ Len(all_threads[1]) > 1
    /\ mi < Len(messages)
    /\ IsRoot(FilterUser(messages[mi + 1]))
    /\ FetchesReplies(messages[mi + 1])

\* the author identifier of an event is the bot sentinel or holds "bot" in any case
BotAuthored(m) ==
    /\ m.user # None
    /\ \/ Val(m.user) = USLACKBOT
       \/ \E i \in 1..(Len(Val(m.user)) - 2) :
             /\ LowerChar(Val(m.user)[i]) = "b"
             /\ LowerChar(Val(m.user)[i + 1]) = "o"
             /\ LowerChar(Val(m.user)[i + 2]) = "t"

\* C7: no bot-authored history event is the root of an assembled thread
C7_NoBotRoot ==
    InPipeline => \A i \in 1..Len(all_threads) : ~BotAuthored(all_threads[i][1])

C7_Witness ==
    /\ InPipeline
    /\ pc = "done"
    /\ failed = {}
    /\ Len(api.hist) = 2
    /\ BotAuthored(api.hist[1])
    /\ Val(api.hist[1].user) # USLACKBOT
    /\ Len(all_threads) = 1

\* a history of one bot-authored root and one human-authored root whose thread
\* holds a bot-authored reply
BotAndHumanStream ==
    /\ Len(api.hist) = 2
    /\ \E b, h \in 1..2 :
          /\ b # h
          /\ BotAuthored(api.hist[b])
          /\ ~BotAuthored(api.hist[h])
          /\ api.hist[h].user # None
          /\ HasThread(api.hist[h].ts)
          /\ \E j \in 1..ThreadAt(api.hist[h].ts).n :
                BotAuthored(ThreadReplies(api.hist[h].ts)[j])

\* C8: for such a stream served without failure the assembler produces exactly
\* one thread, rooted at the human message, that holds the bot-authored reply
C8_BotReplyKept ==
    (entry = "extract" /\ pc \in {"format", "done"} /\ failed = {} /\ BotAndHumanStream) =>
        /\ Len(all_threads) = 1
        /\ ~BotAuthored(all_threads[1][1])
        /\ all_threads[1][1] \in SeqToSet(api.hist)
        /\ \E j \in 2..Len(all_threads[1]) : BotAuthored(all_threads[1][j])
        /\ Tail(all_threads[1]) = ThreadReplies(all_threads[1][1].ts)

C8_Witness ==
    /\ entry = "extract"
    /\ pc = "done"
    /\ failed = {}
    /\ BotAndHumanStream
    /\ Len(records) = 1
    /\ records[1].reply_count = 2

\* C9: fetch_thread_replies returns at most MAX_MESSAGES_PER_THREAD replies, the
\* first ones in the order received (1000 of a thread of 1500), makes no request
\* once the cap is reached, and raises nothing
C9_ReplyCap ==
    /\ [](RepliesLoopOver =>
             /\ Len(replies) <= MAX_MESSAGES_PER_THREAD
             /\ replies = SubSeq(all_replies, 1, Len(replies))
             /\ Len(all_replies) >= MAX_MESSAGES_PER_THREAD
                   => Len(replies) = MAX_MESSAGES_PER_THREAD
             /\ (CONVERSATIONS_REPLIES_URL \notin failed /\ HasThread(thread_ts)
                    /\ ThreadAt(thread_ts).n >= MAX_MESSAGES_PER_THREAD)
                   => replies = SubSeq(RepliesListed(thread_ts), 1, MAX_MESSAGES_PER_THREAD))
    /\ [][ /\ (entry \in {"replies", "extract"} /\ pc \in {"replies", "replies_ret"}
                  /\ Len(all_replies) >= MAX_MESSAGES_PER_THREAD)
              => calls' = calls
           /\ pc = "replies" => pc' \in {"replies", "replies_ret"} ]_vars

C9_Witness ==
    /\ entry = "replies"
    /\ pc = "done"
    /\ failed = {}
    /\ ThreadAt(thread_ts).n = MaxThreadReplies
    /\ Len(all_replies) > MAX_MESSAGES_PER_THREAD
    /\ Len(replies) = MAX_MESSAGES_PER_THREAD

\* C10 as stated: the records are in the order their roots were encountered in
\* the history stream, and that order is ascending by root ts
C10_AsStated ==
    (InPipeline /\ pc = "done") =>
        \A i, j \in 1..Len(records) :
            i < j => /\ PosOf(records[i].timestamp) < PosOf(records[j].timestamp)
                     /\ records[i].timestamp < records[j].timestamp

\* C10 amended: the records are in the order their roots were encountered in
\* the history stream, one record per thread; the stream is the one the
\* history endpoint serves, newest first, so the order is descending by root ts
C10_EncounterOrder ==
    (InPipeline /\ pc = "done") =>
        /\ Len(records) = Len(all_threads)
        /\ \A i, j \in 1..Len(records) :
            i < j => /\ PosOf(records[i].timestamp) < PosOf(records[j].timestamp)
                     /\ records[i].timestamp > records[j].timestamp

C10_Witness ==
    /\ InPipeline
    /\ pc = "done"
    /\ Len(records) >= 3
    /\ Len(LoopCalls(CONVERSATIONS_HISTORY_URL, None)) >= 2

----------------------------------------------------------------------------
(* Initial states: one per entry point and input *)

\* histories of plain messages, and short histories of messages of all kinds
PlainHistories == {[i \in 1..n |-> PlainKind] : n \in 0..MaxHist}
MixedHistories == UNION {[1..n -> Kinds] : n \in 1..MaxMixed} \ PlainHistories
\* the histories with an event of disagreeing linkage among plain messages
LinkHistories ==
    UNION {[1..n -> LinkKinds \cup {PlainKind}] : n \in 1..MaxMixed} \ PlainHistories
\* the histories with a partial event among plain messages
PartialHistories ==
    UNION {[1..n -> PartialKinds \cup {PlainKind}] : n \in 1..MaxMixed} \ PlainHistories

\* a workspace whose channel holds the messages of `kinds`
ApiOf(nusers, nchannels, ngroups, kinds, page, cursors, extra, budget) ==
    [users       |-> SubSeq(Members, 1, nusers),
     channels    |-> SubSeq(ChannelList, 1, nchannels),
     groups      |-> SubSeq(GroupList, 1, ngroups),
     hist        |-> HistOf(kinds),
     threads     |-> ThreadsOf(kinds),
     dirPage     |-> page,
     histPage    |-> page,
     repPage     |-> page,
     histCursors |-> cursors,
     extra       |-> extra,
     budget      |-> budget,
     repOrder    |-> "asc"]

InitFrame ==
    /\ params = NoParams
    /\ attempt = 0 /\ backoff_time = 0 /\ fres = None
    /\ gets = 0 /\ sleeps = 0 /\ lastSleep = 0 /\ lastStatus = "none"

InitDirs ==
    /\ users = <<>> /\ channels = <<>> /\ usergroups = <<>>
    /\ text = <<>>

InitRest ==
    /\ faults = 0
    /\ cursor = 0
    /\ rcursor = 0 /\ all_replies = <<>> /\ replies = <<>>
    /\ data = None /\ messages = <<>> /\ mi = 0 /\ thread = <<>>
    /\ all_threads = <<>> /\ total_messages = 0 /\ records = <<>>
    /\ resolved = None
    /\ failed = {}

\* arguments that pass every validation; the flags are those of
\* run_extraction_pipeline
ValidArgs == [token |-> "ok", channel |-> "ok", dates |-> "ok",
              skip_if_exists |-> FALSE, process_with_llm_flag |-> FALSE,
              max_log_entries |-> DefaultMaxLogEntries]

\* the locals of process_with_llm ahead of its loop, with the raw file `rows`
InitLLM(rows) ==
    /\ df = rows /\ idx = 0
    /\ processed_count = 0 /\ skipped_count = 0 /\ error_count = 0
    /\ summary_data = <<>> /\ summary_rows = None

InitPipeVars ==
    /\ status = "" /\ threads_count = 0 /\ raw_output_path = "" /\ error_message = ""
    /\ written = {} /\ log = <<>> /\ appended = <<>>
    /\ InitLLM(<<>>)

InitLocals == InitDirs /\ InitRest /\ InitPipeVars /\ files = {}

\* make_request_with_backoff(session, url, params, max_retries, initial_backoff)
InitFetcher ==
    /\ entry = "fetcher"
    /\ args = ValidArgs
    /\ pc = "call"
    /\ api = ApiOf(1, 0, 0, <<>>, 1, TRUE, FALSE, MaxRetriesBound)
    /\ thread_ts = 0 /\ replies_params = NoParams
    /\ InitFrame /\ InitLocals
    /\ fpc = "get"
    /\ url = USERS_LIST_URL
    /\ max_retries \in 0..MaxRetriesBound
    /\ initial_backoff \in 1..MaxInitialBackoff
    /\ max_threads = None /\ hparams = NoParams
    /\ calls = <<[url |-> USERS_LIST_URL, params |-> NoParams]>>

\* fetch_workspace_data(session)
InitWorkspace ==
    /\ entry = "workspace"
    /\ args = ValidArgs
    /\ pc = "users"
    /\ \E n \in 0..MaxDirEntries, page \in 1..MaxPage, extra \in BOOLEAN :
          api = ApiOf(n, n, 2, <<>>, page, TRUE, extra, MAX_RETRIES)
    /\ thread_ts = 0 /\ replies_params = NoParams
    /\ InitFrame /\ InitLocals
    /\ fpc = "idle" /\ url = ""
    /\ max_retries = MAX_RETRIES
    /\ initial_backoff = INITIAL_BACKOFF
    /\ max_threads = None /\ hparams = NoParams
    /\ calls = <<>>

\* the thread of the directly called fetch_thread_replies: one root with n replies
BigThread(n) ==
    [ApiOf(0, 0, 0, <<ThreadKind>>, DEFAULT_LIMIT, TRUE, FALSE, MaxFaults)
        EXCEPT !.threads = {[ts |-> TsOf(1), n |-> n, authors |-> ThreadKind.authors]}]

\* fetch_thread_replies(session, channel_id, thread_ts)
InitReplies ==
    /\ entry = "replies"
    /\ args = ValidArgs
    /\ pc = "replies"
    /\ \E n \in {0, 1, DEFAULT_LIMIT, MAX_MESSAGES_PER_THREAD - 1, MAX_MESSAGES_PER_THREAD,
                 MAX_MESSAGES_PER_THREAD + 1, MaxThreadReplies},
          page \in {DEFAULT_LIMIT, OddRepliesPage},
          extra \in BOOLEAN :
          api = [BigThread(n) EXCEPT !.repPage = page, !.extra = extra]
    /\ thread_ts = TsOf(1) /\ replies_params = RepliesParams(TsOf(1))
    /\ InitFrame /\ InitLocals
    /\ fpc = "idle" /\ url = ""
    /\ max_retries = MAX_RETRIES
    /\ initial_backoff = INITIAL_BACKOFF
    /\ max_threads = None /\ hparams = NoParams
    /\ calls = <<>>

\* the initial `params` of the history loop
HistoryParams ==
    [NoParams EXCEPT !.channel = Some(channel_id),
                     !.limit = Some(DEFAULT_LIMIT),
                     !.oldest = Some(TsOf(0) + 1),
                     !.latest = Some(TsOf(MaxHist + MaxMixed + 1))]

\* where the entry starts: the handler with the validation of the body,
\* run_extraction_pipeline with its file names, extract_slack_threads with
\* fetch_workspace_data
StartOf(e) == CASE e = "app" -> "validate" [] e = "run" -> "run_start" [] OTHER -> "users"

\* extract_slack_threads(token, channel_id, start_date, end_date, max_threads) and
\* the handler of POST /fetch-slack-messages, with valid arguments
InitPipeline ==
    /\ entry \in {"extract", "app"}
    /\ args = ValidArgs
    /\ pc = StartOf(entry)
    /\ \/ \E kinds \in PlainHistories, page \in 1..MaxPage, cursors \in BOOLEAN,
             extra \in BOOLEAN :
             /\ api = ApiOf(1, 1, 1, kinds, page, cursors, extra, MaxFaults)
             /\ max_threads \in IF entry = "extract" THEN {None, Some(0), Some(1), Some(2)}
                                 ELSE {None}
       \/ \E kinds \in MixedHistories, page \in 1..MaxPage :
             /\ api = ApiOf(1, 1, 1, kinds, page, TRUE, FALSE, MaxFaults)
             /\ max_threads \in IF entry = "extract" THEN {None, Some(1)} ELSE {None}
       \/ \E kinds \in PartialHistories \cup LinkHistories, page \in 1..MaxPage :
             /\ api = ApiOf(1, 1, 1, kinds, page, TRUE, FALSE, MaxFaults)
             /\ max_threads = None
       \/ \E page \in 1..MaxPage :
             /\ api = [ApiOf(1, 1, 1, <<ThreadKind>>, page, TRUE, FALSE, MaxFaults)
                          EXCEPT !.repOrder = "desc"]
             /\ max_threads = None
    /\ thread_ts = 0 /\ replies_params = NoParams
    /\ InitFrame /\ InitLocals
    /\ fpc = "idle" /\ url = ""
    /\ max_retries = MAX_RETRIES
    /\ initial_backoff = INITIAL_BACKOFF
    /\ hparams = HistoryParams
    /\ calls = <<>>

\* the handler and extract_slack_threads with arguments of every kind: a
\* missing token, an empty channel, dates that are missing (the handler) or
\* not of the form YYYY-MM-DD
ConfigArgs ==
    {[ValidArgs EXCEPT !.token = t, !.channel = c, !.dates = d] :
        t \in {"ok", "missing"}, c \in {"ok", "missing"},
        d \in {"ok", "malformed", "missing"}}

InitConfig ==
    /\ entry \in {"extract", "app"}
    /\ pc = StartOf(entry)
    /\ args \in ConfigArgs
    /\ entry = "extract" => args.dates # "missing"
    /\ api = ApiOf(1, 1, 1, <<PlainKind, PlainKind>>, 1, TRUE, FALSE, 0)
    /\ max_threads = None
    /\ thread_ts = 0 /\ replies_params = NoParams
    /\ InitFrame /\ InitDirs /\ InitRest /\ InitPipeVars /\ files = {}
    /\ fpc = "idle" /\ url = ""
    /\ max_retries = MAX_RETRIES
    /\ initial_backoff = INITIAL_BACKOFF
    /\ hparams = HistoryParams
    /\ calls = <<>>

\* the histories run_extraction_pipeline is run on: none, plain messages over
\* several pages, a thread, a message without 'ts'
RunHistories ==
    {<<>>, <<PlainKind, PlainKind>>, <<ThreadKind>>, <<PlainKind, NoTsKind>>}

\* run_extraction_pipeline(token, channel_id, start_date, end_date, max_threads,
\* skip_if_exists, process_with_llm_flag), with or without a raw file of an
\* earlier run on disk
InitRun ==
    /\ entry = "run"
    /\ pc = StartOf(entry)
    /\ \E d \in {"ok", "malformed"}, skip \in BOOLEAN, llm \in BOOLEAN :
          args = [ValidArgs EXCEPT !.dates = d, !.skip_if_exists = skip,
                                   !.process_with_llm_flag = llm]
    /\ files \in {{}, {"raw"}}
    /\ \E kinds \in RunHistories : api = ApiOf(1, 1, 1, kinds, 1, TRUE, FALSE, MaxFaults)
    /\ max_threads = None
    /\ thread_ts = 0 /\ replies_params = NoParams
    /\ InitFrame /\ InitDirs /\ InitRest /\ InitPipeVars
    /\ fpc = "idle" /\ url = ""
    /\ max_retries = MAX_RETRIES
    /\ initial_backoff = INITIAL_BACKOFF
    /\ hparams = HistoryParams
    /\ calls = <<>>

\* the identifiers the directories of a directly called resolve_names hold ...
KnownUser    == <<"U","1">>
KnownChannel == <<"C","1">>
KnownGroup   == <<"S","1">>
\* ... and the ones they miss
NewUser      == <<"U","9">>
NewChannel   == <<"C","9">>
NewGroup     == <<"S","9">>

\* the mention token <sigil id>
Token(sigil, id) == <<"<", sigil>> \o id \o <<">">>

\* every sigil with every identifier the pattern accepts: the user, channel and
\* group mentions and the tokens whose sigil and identifier do not agree
Tokens ==
    {Token(sigil, id) :
        sigil \in {"@", "#", "!"},
        id \in {KnownUser, NewUser, KnownChannel, NewChannel,
                SubSeq(SUBTEAM, 1, 8) \o KnownGroup, SubSeq(SUBTEAM, 1, 8) \o NewGroup}}

\* text the pattern does not match
NonTokens ==
    {<<"a">>, <<"<","@","U","a",">">>, <<"<","@","U","1">>, <<"<","@","u","1",">">>, <<"<","@",">">>,
     <<"<","!","h","e","r","e",">">>, <<"@","U","1">>}

RECURSIVE Concat(_)
Concat(ss) == IF ss = <<>> THEN <<>> ELSE Head(ss) \o Concat(Tail(ss))

\* the texts of at most MaxPieces pieces
Texts == {Concat(ps) : ps \in UNION {[1..n -> Tokens \cup NonTokens] : n \in 0..MaxPieces}}

\* resolve_names(text, users, channels, usergroups), with full or empty directories
InitResolve ==
    /\ entry \in {"resolve_names", "app_resolve_names"}
    /\ args = ValidArgs
    /\ pc = "resolve"
    /\ api = ApiOf(0, 0, 0, <<>>, 1, TRUE, FALSE, 0)
    /\ text \in Texts
    /\ \E full \in BOOLEAN :
          /\ users = IF full THEN <<<<KnownUser, <<"A","l">>>>>> ELSE <<>>
          /\ channels = IF full THEN <<<<KnownChannel, <<"g","e","n">>>>>> ELSE <<>>
          /\ usergroups = IF full THEN <<<<KnownGroup, <<"s","r","e">>>>>> ELSE <<>>
    /\ thread_ts = 0 /\ replies_params = NoParams
    /\ InitFrame /\ InitRest /\ InitPipeVars /\ files = {}
    /\ fpc = "idle" /\ url = ""
    /\ max_retries = MAX_RETRIES
    /\ initial_backoff = INITIAL_BACKOFF
    /\ max_threads = None /\ hparams = NoParams
    /\ calls = <<>>

\* a user mention with a control character inside its identifier
BrokenToken == <<"<","@","U","\f","1",">">>
HereTag == MISC_TAG \o <<"h","e","r","e",">">>
LinkTag == HTTPS_TAG \o <<"a",">">>

\* the pieces of an event's text: words, whitespace, a control character,
\* mentions of a known user and a known group, a broken mention, a <!here>
\* tag and a hyperlink tag
TextPieces ==
    {<<"a">>, <<" ">>, <<"\n">>, <<"\f">>, Token("@", KnownUser),
     Token("!", SubSeq(SUBTEAM, 1, 8) \o KnownGroup), BrokenToken, HereTag, LinkTag}

EventTexts == {Concat(ps) : ps \in UNION {[1..n -> TextPieces] : n \in 0..MaxPieces}}

\* the text of one event on its way into a record, with the directories built
InitFormatText ==
    /\ entry \in {"format_text", "app_format_text"}
    /\ args = ValidArgs
    /\ pc = "resolve_text"
    /\ api = ApiOf(0, 0, 0, <<>>, 1, TRUE, FALSE, 0)
    /\ text \in EventTexts
    /\ users = <<<<KnownUser, <<"A","l">>>>>>
    /\ channels = <<<<KnownChannel, <<"g","e","n">>>>>>
    /\ usergroups = <<<<KnownGroup, <<"s","r","e">>>>>>
    /\ thread_ts = 0 /\ replies_params = NoParams
    /\ InitFrame /\ InitRest /\ InitPipeVars /\ files = {}
    /\ fpc = "idle" /\ url = ""
    /\ max_retries = MAX_RETRIES
    /\ initial_backoff = INITIAL_BACKOFF
    /\ max_threads = None /\ hparams = NoParams
    /\ calls = <<>>

\* calls of log_extraction_run(log_entry, max_log_entries) on a log file that
\* does not exist yet
InitLog ==
    /\ entry = "log"
    /\ \E m \in 1..MaxLogCap : args = [ValidArgs EXCEPT !.max_log_entries = m]
    /\ pc = "log_call"
    /\ api = ApiOf(0, 0, 0, <<>>, 1, TRUE, FALSE, 0)
    /\ thread_ts = 0 /\ replies_params = NoParams
    /\ InitFrame /\ InitLocals
    /\ fpc = "idle" /\ url = ""
    /\ max_retries = MAX_RETRIES
    /\ initial_backoff = INITIAL_BACKOFF
    /\ max_threads = None /\ hparams = NoParams
    /\ calls = <<>>

\* process_with_llm(raw_file_path, summary_file_path) on a raw file of at
\* most MaxRows rows
InitProcess ==
    /\ entry = "llm"
    /\ args = ValidArgs
    /\ pc = "llm_loop"
    /\ api = ApiOf(0, 0, 0, <<>>, 1, TRUE, FALSE, 0)
    /\ thread_ts = 0 /\ replies_params = NoParams
    /\ InitFrame /\ InitDirs /\ InitRest
    /\ status = "" /\ threads_count = 0 /\ raw_output_path = "" /\ error_message = ""
    /\ written = {} /\ log = <<>> /\ appended = <<>>
    /\ files = {"raw"}
    /\ \E rows \in UNION {[1..n -> RowKinds] : n \in 0..MaxRows} : InitLLM(rows)
    /\ fpc = "idle" /\ url = ""
    /\ max_retries = MAX_RETRIES
    /\ initial_backoff = INITIAL_BACKOFF
    /\ max_threads = None /\ hparams = NoParams
    /\ calls = <<>>

Init ==
    \/ InitFetcher \/ InitWorkspace \/ InitReplies \/ InitPipeline \/ InitResolve
    \/ InitConfig \/ InitRun \/ InitFormatText \/ InitLog \/ InitProcess

Next ==
    \/ FetchGet \/ FetchSleep \/ FetchFallThrough \/ FetcherDone
    \/ UsersRequest \/ UsersPage \/ ChannelsRequest \/ ChannelsPage
    \/ GroupsRequest \/ GroupsPage
    \/ RepliesRequest \/ RepliesCapped \/ RepliesPage \/ RepliesDone
    \/ HistoryRequest \/ HistoryPage
    \/ MessageFiltered \/ MessageSingle \/ MessageThreaded \/ ThreadAssembled
    \/ AppMessageThreaded \/ AppThreadAssembled
    \/ PageEnd \/ Format
    \/ ResolveCall \/ TextResolve \/ TextClean
    \/ AppValidate
    \/ RunStart \/ RunSave \/ RunLLM \/ RunLog \/ LogExtractionRun
    \/ LLMRow \/ LLMSave

Spec == Init /\ [][Next]_vars

----------------------------------------------------------------------------
(* C11..C13: resolve_names *)

Resolving == entry \in {"resolve_names", "app_resolve_names"}
Resolved == Resolving /\ pc # "resolve"

\* the number of occurrences of the character c in s
Count(c, s) == Cardinality({i \in 1..Len(s) : s[i] = c})

\* the angle brackets the output lacks were removed in pairs: no token lost
\* one of its delimiters and kept the other
BracketsPaired(in, out) ==
    /\ Count("<", out) <= Count("<", in)
    /\ Count("<", in) - Count("<", out) = Count(">", in) - Count(">", out)

\* C11: for any text and any directories resolve_names never raises and never
\* leaves a mention token partially substituted, in both implementations, also
\* for tokens whose sigil and identifier kind do not agree
C11_AsStated ==
    Resolved => /\ pc = "done"
                /\ resolved # None
                /\ BracketsPaired(text, Val(resolved))

\* what holds of C11: resolve_names of test.py never raises and substitutes
\* whole tokens; resolve_names of app.py raises exactly on the texts with a
\* token of sigil '!' whose identifier holds no '^'
HasBangWithoutCaret(s) ==
    \E i \in 1..Len(s) :
        /\ MatchLen(s, i) > 0
        /\ s[i + 1] = "!"
        /\ s[i + 2] \in {"U", "C"}

C11_TotalButBang ==
    Resolved =>
        /\ (pc = "raised") = (resolved = None)
        /\ resolved = None <=> (entry = "app_resolve_names" /\ HasBangWithoutCaret(text))
        /\ resolved # None => BracketsPaired(text, Val(resolved))

C11_Raises ==
    /\ entry = "app_resolve_names"
    /\ pc = "raised"
    /\ text = Token("!", NewUser)

\* a text that holds the token tok next to text p without tokens resolves to
\* p and out, in the order of the text
ResolvesNextTo(tok, out) ==
    \A p \in NonTokens \cup {<<>>} :
        /\ text = tok \o p => resolved = Some(out \o p)
        /\ text = p \o tok => resolved = Some(p \o out)

GroupToken(id) == Token("!", SubSeq(SUBTEAM, 1, 8) \o id)

UserMiss == Resolved /\ DictGet(users, NewUser, None) = None
ChannelMiss == Resolved /\ DictGet(channels, NewChannel, None) = None
GroupMiss == Resolved /\ DictGet(usergroups, NewGroup, None) = None

\* the author of the root of thread i misses the users directory
AuthorMiss(i) ==
    /\ all_threads[i][1].user # None
    /\ DictGet(users, Val(all_threads[i][1].user), None) = None

AuthorPassesThrough ==
    (entry = "extract" /\ pc = "done") =>
        \A i \in 1..Len(records) :
            AuthorMiss(i) => records[i].user = Val(all_threads[i][1].user)

\* C12 as stated: a token whose identifier misses its directory resolves to
\* the identifier prefixed with the token's own sigil: '@' for a user token,
\* '#' for a channel token, '!' for a group token; the author of a record
\* that misses the directory is given as the raw ID
C12_AsStated ==
    /\ UserMiss => ResolvesNextTo(Token("@", NewUser), <<"@">> \o NewUser)
    /\ ChannelMiss => ResolvesNextTo(Token("#", NewChannel), <<"#">> \o NewChannel)
    /\ GroupMiss => \/ ResolvesNextTo(GroupToken(NewGroup), <<"!">> \o NewGroup)
                    \/ ResolvesNextTo(GroupToken(NewGroup),
                                      <<"!">> \o SubSeq(SUBTEAM, 1, 8) \o NewGroup)
    /\ AuthorPassesThrough

\* C12 amended: ... '@' for a user token, '#' for a channel token, and for a
\* group token '@' followed by the group ID that follows "subteam^"
C12_MissPassThrough ==
    /\ UserMiss => ResolvesNextTo(Token("@", NewUser), <<"@">> \o NewUser)
    /\ ChannelMiss => ResolvesNextTo(Token("#", NewChannel), <<"#">> \o NewChannel)
    /\ GroupMiss => ResolvesNextTo(GroupToken(NewGroup), <<"@">> \o NewGroup)
    /\ (Resolved /\ users = <<>>) =>
          ResolvesNextTo(Token("@", KnownUser), <<"@">> \o KnownUser)
    /\ (Resolved /\ usergroups = <<>>) =>
          ResolvesNextTo(GroupToken(KnownGroup), <<"@">> \o KnownGroup)
    /\ AuthorPassesThrough

C12_Witness ==
    /\ entry = "resolve_names"
    /\ pc = "done"
    /\ usergroups # <<>>
    /\ text = <<"a">> \o GroupToken(NewGroup)
    /\ resolved = Some(<<"a", "@">> \o NewGroup)

\* the texts made of pieces that hold no mention token
PlainTexts == {Concat(ps) : ps \in UNION {[1..n -> NonTokens] : n \in 0..MaxPieces}}

\* C13: resolve_names of a text without mention tokens returns the text
\* unchanged, and resolving a resolved text again changes nothing
C13_Idempotent ==
    Resolved =>
        /\ text \in PlainTexts => resolved = Some(text)
        /\ resolved # None =>
              ResolveNames(Val(resolved), users, channels, usergroups,
                           entry = "app_resolve_names") = resolved

C13_Witness ==
    /\ Resolved
    /\ pc = "done"
    /\ text = <<"<","!","h","e","r","e",">">> \o <<"<","@","U","a",">">>
    /\ resolved = Some(text)

----------------------------------------------------------------------------
(* C14: the counts of a record of format_thread_data *)

\* the thread a record of a finished extract_slack_threads was made of
Formatted == entry = "extract" /\ pc = "done"

\* the author IDs the events of a thread carry
AuthorIds(t) == {Val(t[i].user) : i \in {j \in 1..Len(t) : t[j].user # None}}

\* an event of the thread carries no 'user'
Anonymous(t) == \E i \in 1..Len(t) : t[i].user = None

\* reply_count is the number of replies of the thread
ReplyCounts ==
    Formatted =>
        \A i \in 1..Len(records) : records[i].reply_count = Len(all_threads[i]) - 1

\* C14 as stated: in every record of format_thread_data reply_count is the
\* number of reply events of the thread and participants is the number of
\* distinct author IDs of its root and replies, also when the root or a reply
\* carries no author field.  Violated: the placeholders 'Unknown' (root) and ''
\* (reply) are counted as participants.
C14_AsStated ==
    /\ ReplyCounts
    /\ Formatted =>
          \A i \in 1..Len(records) :
              records[i].participants = Cardinality(AuthorIds(all_threads[i]))

\* C14, what does hold: reply_count is the number of replies, and participants
\* is the number of distinct author IDs when every event of the thread carries
\* an author, and exceeds it by one or two placeholders otherwise.
C14_CountsWithAuthors ==
    /\ ReplyCounts
    /\ Formatted =>
          \A i \in 1..Len(records) :
              LET n == Cardinality(AuthorIds(all_threads[i])) IN
              IF Anonymous(all_threads[i])
              THEN records[i].participants \in {n + 1, n + 2}
              ELSE records[i].participants = n

\* a record of a thread whose root and first reply carry no author and whose
\* second reply is by one user: participants is 3
C14_Witness ==
    /\ Formatted
    /\ \E i \in 1..Len(records) :
          /\ Len(all_threads[i]) = 3
          /\ all_threads[i][1].user = None
          /\ all_threads[i][2].user = None
          /\ Cardinality(AuthorIds(all_threads[i])) = 1
          /\ records[i].participants = 3
          /\ records[i].reply_count = 2

----------------------------------------------------------------------------
(* C15: the directories after fetch_workspace_data / fetch_users,
   fetch_channels, fetch_usergroups *)

GroupsLoopOver == ChannelsLoopOver /\ pc # "groups"

\* the only request to usergroups.list was answered with a page that names a
\* next one
GroupsPageAnnouncedNext ==
    /\ GroupsLoopOver
    /\ USERGROUPS_LIST_URL \notin failed
    /\ Serve(USERGROUPS_LIST_URL, NoParams).next_cursor # 0

UsersComplete ==
    (UsersLoopOver /\ USERS_LIST_URL \notin failed) => users = AddMembers(<<>>, api.users)

ChannelsComplete ==
    (ChannelsLoopOver /\ CHANNELS_LIST_URL \notin failed) =>
        channels = AddChannels(<<>>, api.channels)

----------------------------------------------------------------------------
(* C16: the status run_extraction_pipeline logs after a failed history page *)

\* run_extraction_pipeline has appended its log entry
RunLogged == entry = "run" /\ pc = "run_done" /\ log # <<>>

LastLog == log[Len(log)]

\* the history loop was left on a terminal failure of the fetcher
HistoryFailed == CONVERSATIONS_HISTORY_URL \in failed

\* C16 as stated: the log entry of a run whose history pagination ended on a
\* terminal fetch failure has a failed or partial status, never "success".
\* Violated: extract_slack_threads returns the threads of the earlier pages
\* and says nothing of the failure, and the status comes from their number.
C16_AsStated ==
    (RunLogged /\ HistoryFailed) => LastLog.status \in {"failed", "partial_success"}

\* C16, what does hold: when extraction returned, the status is a function of
\* the number of threads and the LLM step alone: "no_data" for none, and
\* without the LLM step "success" for any other number, failed page or not.
C16_StatusFromCount ==
    (RunLogged /\ LastLog.error = "") =>
        /\ LastLog.status = "no_data" <=> LastLog.threads_count = 0
        /\ (LastLog.threads_count > 0 /\ ~args.process_with_llm_flag)
              => LastLog.status = "success"
        /\ LastLog.status # "failed"

\* the second history request failed after the first page gave a thread: the
\* run is logged as a success
C16_Witness ==
    /\ RunLogged /\ HistoryFailed
    /\ Len(LoopCalls(CONVERSATIONS_HISTORY_URL, None)) >= 2
    /\ Len(all_threads) >= 1
    /\ Len(all_threads) < Len(api.hist)
    /\ LastLog.status = "success"
    /\ LastLog.threads_count = Len(all_threads)

----------------------------------------------------------------------------
(* C17: arguments that cannot be used *)

\* a missing credential or parameter, or a date not of the form YYYY-MM-DD
InvalidConfig == MissingParameter \/ args.dates = "malformed"

\* C17 as stated: with an invalid configuration the handler and
\* extract_slack_threads issue no request at all.  Violated by
\* extract_slack_threads, which validates nothing and parses the dates after
\* fetch_workspace_data.
C17_AsStated ==
    (entry \in {"extract", "app"} /\ InvalidConfig) => calls = <<>>

\* C17, what does hold: the handler rejects an invalid body before any
\* request, and goes on to the directories with a valid one
C17_HandlerFailsFast ==
    /\ (entry = "app" /\ InvalidConfig) => (calls = <<>> /\ pc \in {"validate", "rejected"})
    /\ (entry = "app" /\ ~InvalidConfig) => pc # "rejected"

\* extract_slack_threads with a malformed date raised after the three
\* directory requests
C17_Witness ==
    /\ entry = "extract" /\ args.dates = "malformed" /\ ~MissingParameter
    /\ pc = "raised"
    /\ [i \in 1..Len(calls) |-> calls[i].url]
          = <<USERS_LIST_URL, CHANNELS_LIST_URL, USERGROUPS_LIST_URL>>

----------------------------------------------------------------------------
(* C18: events that lack a field *)

\* the API holds an event without the key
HistoryLacks(key) == \E i \in 1..Len(api.hist) : ~HasKey(api.hist[i], key)

\* C18 as stated: with valid arguments a run over any history, events without
\* a timestamp, text or author included, does not raise, and it emits one
\* record for every thread.  Violated: ['ts'] raises KeyError in both
\* implementations and ['text'] in the handler.
C18_AsStated ==
    (InPipeline /\ ~InvalidConfig) =>
        /\ pc # "raised"
        /\ pc = "done" => Len(records) = Len(all_threads)

\* C18, what does hold: a missing author is defaulted in both implementations
\* and a missing text in format_thread_data: a run raises only over an event
\* without 'ts', or in the handler without 'text'; a run that does not raise
\* emits one record for every thread
C18_DefaultsAuthor ==
    (InPipeline /\ ~InvalidConfig) =>
        /\ pc = "raised" => (HistoryLacks("ts") \/ (entry = "app" /\ HistoryLacks("text")))
        /\ pc = "done" => Len(records) = Len(all_threads)

\* the handler over a plain message and a message without 'text': the output
\* loop raised and no record was emitted, that of the plain message included
C18_Witness ==
    /\ entry = "app" /\ ~InvalidConfig
    /\ pc = "raised"
    /\ Len(all_threads) = 2
    /\ \E i \in 1..2 : ~HasKey(all_threads[i][1], "text") /\ HasKey(all_threads[i][1], "ts")
    /\ \E i \in 1..2 : all_threads[i][1].lacks = {}
    /\ records = <<>>

----------------------------------------------------------------------------
(* C19: the raw output file of run_extraction_pipeline *)

\* the exception run_extraction_pipeline caught came out of extract_slack_threads
ExtractionRaised == pc = "raised" \/ error_message = "extract_slack_threads"

\* C19: the raw output file is written only once extract_slack_threads has
\* returned the records of all the threads it assembled, and a run whose
\* extraction raised writes no raw output file
C19_RawAfterExtraction ==
    entry = "run" =>
        /\ "raw" \in written =>
              /\ pc \in {"llm", "log", "run_done"}
              /\ ~ExtractionRaised
              /\ threads_count = Len(records)
              /\ Len(records) = Len(all_threads)
              /\ Len(records) > 0
        /\ ExtractionRaised => written = {}

\* the formatting raised after two threads were assembled: the run is logged
\* as failed and has written no file
C19_Witness ==
    /\ RunLogged
    /\ LastLog.error = "extract_slack_threads"
    /\ LastLog.status = "failed"
    /\ Len(all_threads) = 2
    /\ written = {}

----------------------------------------------------------------------------
(* C20: the end of a pagination loop *)

\* the fetcher returned the terminal failure value or a body with ok false
Failure == fres = None \/ ~Val(fres).ok

\* the directory page at hand names no next page
LastDirPage == Failure \/ Val(fres).next_cursor = 0

\* the positions after the history loop
HistoryStopped ==
    /\ entry \in {"extract", "app", "run"}
    /\ pc \in {"format", "done", "raised", "llm", "log", "run_done"}

\* the positions after the users loop and after the channels loop
UsersStopped ==
    /\ entry \in {"workspace", "extract", "app", "run"}
    /\ pc \notin {"validate", "rejected", "run_start", "run_raised", "skipped", "users"}
ChannelsStopped == UsersStopped /\ pc # "channels"

\* the step that takes a page leaves the loop when the page is a failure or
\* the last one, and keeps what the earlier pages gave
StopsAtLastPage ==
    /\ (pc = "users" /\ fpc = "ret" /\ LastDirPage)
          => (pc' = "channels" /\ (Failure => users' = users))
    /\ (pc = "channels" /\ fpc = "ret" /\ LastDirPage)
          => (pc' = "groups" /\ (Failure => channels' = channels))
    /\ (pc = "history" /\ fpc = "ret" /\ Failure)
          => (pc' = "format" /\ all_threads' = all_threads)
    /\ ((pc = "page_end" \/ (pc = "msgs" /\ mi > Len(messages))) /\ ~Val(data).has_more)
          => (pc' = "format" /\ all_threads' = all_threads)
    /\ (pc = "replies" /\ fpc = "ret" /\ (Failure \/ ~Val(fres).has_more))
          => /\ pc' = "replies_ret"
             /\ Failure => replies' = CapReplies(all_replies)
             /\ ~Failure => replies' = CapReplies(all_replies \o SkipParent(Val(fres).items))

\* no request goes to the endpoint of a loop that is over
NoRequestAfterStop ==
    /\ UsersStopped => LoopCalls(USERS_LIST_URL, None)' = LoopCalls(USERS_LIST_URL, None)
    /\ ChannelsStopped
          => LoopCalls(CHANNELS_LIST_URL, None)' = LoopCalls(CHANNELS_LIST_URL, None)
    /\ HistoryStopped
          => /\ LoopCalls(CONVERSATIONS_HISTORY_URL, None)'
                   = LoopCalls(CONVERSATIONS_HISTORY_URL, None)
             /\ all_threads' = all_threads
    /\ (pc = "replies_ret" \/ (entry = "replies" /\ pc = "done"))
          => /\ LoopCalls(CONVERSATIONS_REPLIES_URL, Some(thread_ts))'
                   = LoopCalls(CONVERSATIONS_REPLIES_URL, Some(thread_ts))
             /\ replies' = replies \/ replies' = <<>>
    /\ \A i \in 1..Len(all_threads) :
          HasKey(all_threads[i][1], "ts") =>
              LoopCalls(CONVERSATIONS_REPLIES_URL, Some(all_threads[i][1].ts))'
                = LoopCalls(CONVERSATIONS_REPLIES_URL, Some(all_threads[i][1].ts))

\* C20: every pagination loop is left on the page that signals no more pages
\* and on a failure of the fetcher (None or ok false); from then on no request
\* goes to its endpoint, and what the earlier pages gave is kept and returned
C20_StopsAndKeeps == [][StopsAtLastPage /\ NoRequestAfterStop]_vars

\* the history loop was left on the failure of its third request, after the
\* users loop had ended on its only page: the threads of the two pages are
\* kept and formatted
C20_Witness ==
    /\ entry = "extract" /\ pc = "done"
    /\ failed = {CONVERSATIONS_HISTORY_URL}
    /\ Len(LoopCalls(CONVERSATIONS_HISTORY_URL, None)) = 3
    /\ Len(all_threads) >= 2 /\ Len(records) = Len(all_threads)
    /\ Len(all_threads) < Len(api.hist)
    /\ Len(LoopCalls(USERS_LIST_URL, None)) = 1

----------------------------------------------------------------------------
(* C21: the continuation of the history loop by timestamp *)

\* the page at hand says has_more and gives no cursor the code looks at
\* (fetch_slack_messages never looks at one)
CursorlessPage == entry = "app" \/ Val(data).next_cursor = 0

\* the step to the next history request after such a page: latest is the ts
\* of the last item of the page, no cursor, the other parameters as they were
FallbackStep ==
    (pc \in {"msgs", "page_end"} /\ pc' = "history" /\ CursorlessPage) =>
        hparams' = [hparams EXCEPT !.cursor = None,
                                   !.latest = Some(messages[Len(messages)].ts)]

\* every event of the requested range that passes the bot filter is the root
\* of a collected thread, and every event of the range was received
NoOmission ==
    (InPipeline /\ HistoryLoopOver /\ ~HistoryFailed /\ NoCap
        /\ (entry = "app" \/ ~api.histCursors)) =>
        /\ \A i \in 1..Len(InRange) :
              IsRoot(FilterUser(InRange[i])) =>
                  \E j \in 1..Len(all_threads) : all_threads[j][1] = InRange[i]
        /\ entry = "extract" => total_messages >= Len(InRange)

\* C21: after a history page that says has_more and carries no cursor the next
\* request has latest = ts of the last item of the page and no cursor, with
\* channel, oldest and limit unchanged, and a run that continues this way
\* omits no event of the requested range
C21_TimestampFallback == [][FallbackStep]_vars /\ []NoOmission

\* extract_slack_threads against an API that gives no cursors: three requests
\* by timestamp, every message of the range collected
C21_Witness ==
    /\ entry = "extract" /\ ~api.histCursors
    /\ pc = "done" /\ failed = {} /\ NoCap
    /\ Len(LoopCalls(CONVERSATIONS_HISTORY_URL, None)) >= 3
    /\ \A i \in 1..Len(LoopCalls(CONVERSATIONS_HISTORY_URL, None)) :
          LoopCalls(CONVERSATIONS_HISTORY_URL, None)[i].params.cursor = None
    /\ Len(all_threads) = Len(api.hist)

----------------------------------------------------------------------------
(* C22: which roots have their replies requested *)

\* the for loop is at a message that passes the bot filter
RootAtHand ==
    /\ InPipeline /\ InMessages
    /\ IsRoot(FilterUser(messages[mi]))
    /\ HasKey(messages[mi], "ts")

\* the step calls fetch_thread_replies / fetch_replies for the message at hand
OpensReplies ==
    /\ pc' \in {"replies", "app_replies"}
    /\ thread_ts' = messages[mi].ts
    /\ all_threads' = all_threads

\* the step appends the message at hand as a singleton thread, with no request
Singleton ==
    /\ all_threads' = Append(all_threads, <<messages[mi]>>)
    /\ calls' = calls
    /\ pc' \notin {"replies", "app_replies"}

PositiveReplyCount(m) == m.reply_count # None /\ Val(m.reply_count) > 0

\* C22 as stated: the replies of an unfiltered root are requested only if its
\* thread_ts is its own ts and its reply count is positive; any other root is
\* a singleton thread with no request.  Violated: neither implementation
\* compares thread_ts with ts, and fetch_slack_messages does not look at the
\* reply count.
C22_AsStated ==
    [][RootAtHand =>
          IF messages[mi].thread_ts = Some(messages[mi].ts) /\ PositiveReplyCount(messages[mi])
          THEN OpensReplies ELSE Singleton]_vars

\* C22 amended: extract_slack_threads requests the replies exactly of the
\* roots that carry a thread_ts (its own ts or not) and a positive reply
\* count, fetch_slack_messages exactly of the roots that carry a thread_ts;
\* any other root is a singleton thread with no request
C22_GroupingRule ==
    [][RootAtHand =>
          IF /\ messages[mi].thread_ts # None
             /\ (entry = "extract" => PositiveReplyCount(messages[mi]))
          THEN OpensReplies ELSE Singleton]_vars

\* the handler requested the replies of a message whose thread_ts is another
\* message's ts and which carries no reply count, and extract_slack_threads
\* did not
C22_Witness ==
    /\ InPipeline /\ pc = "done" /\ failed = {}
    /\ \E i \in 1..Len(all_threads) :
          LET root == all_threads[i][1] IN
          /\ root.thread_ts # None /\ root.thread_ts # Some(root.ts)
          /\ ~PositiveReplyCount(root)
          /\ Len(all_threads[i]) = 1
          /\ entry = "app"
          /\ LoopCalls(CONVERSATIONS_REPLIES_URL, Some(root.ts)) # <<>>

----------------------------------------------------------------------------
(* C23: the shape of an assembled thread *)

\* one root, then replies of that root in ascending order of ts
WellFormedThread(t) ==
    /\ Len(t) >= 1
    /\ \A j \in 2..Len(t) :
          /\ t[j].ts # t[1].ts
          /\ t[j].thread_ts = Some(t[1].ts)
          /\ j > 2 => t[j - 1].ts < t[j].ts

\* C23 as stated: every assembled thread is one root followed by its replies
\* in ascending order of ts, whatever the replies endpoint returns.
\* Violated: the replies are appended in the order of the pages received.
C23_AsStated == \A i \in 1..Len(all_threads) : WellFormedThread(all_threads[i])

\* C23, what the code gives: a thread is the root followed by the events of
\* the replies pages in the order received, so it is well formed when the
\* endpoint lists the replies oldest first
C23_OrderOfEndpoint ==
    api.repOrder = "asc" => \A i \in 1..Len(all_threads) : WellFormedThread(all_threads[i])

\* a run ended with a thread whose replies are in descending order of ts
C23_Witness ==
    /\ InPipeline /\ pc = "done" /\ failed = {}
    /\ \E i \in 1..Len(all_threads) :
          /\ Len(all_threads[i]) >= 3
          /\ all_threads[i][2].ts > all_threads[i][3].ts
          /\ \A j \in 2..Len(all_threads[i]) :
                all_threads[i][j].thread_ts = Some(all_threads[i][1].ts)

----------------------------------------------------------------------------
(* C24: the replies a thread receives *)

RECURSIVE PagesReturned(_)
\* the events of the answers to the requests cs, the root's echo left out
PagesReturned(cs) ==
    IF cs = <<>> THEN <<>> ELSE PageItems(cs[1]) \o PagesReturned(Tail(cs))

\* the thread's replies were requested, and no replies request failed
RepliesFetched(t) ==
    /\ CONVERSATIONS_REPLIES_URL \notin failed
    /\ LoopCalls(CONVERSATIONS_REPLIES_URL, Some(t[1].ts)) # <<>>

RootOnce(t) == \A j \in 2..Len(t) : t[j] # t[1]

\* C24 as stated: a thread whose replies were fetched holds the root once
\* and every reply the endpoint holds for it, also when the endpoint delivers
\* them over several pages.  Violated: fetch_replies of app.py sends one
\* request and does not follow has_more.
C24_AsStated ==
    InPipeline =>
        \A i \in 1..Len(all_threads) :
            (RepliesFetched(all_threads[i]) /\ HasThread(all_threads[i][1].ts)) =>
                /\ RootOnce(all_threads[i])
                /\ Tail(all_threads[i]) = RepliesListed(all_threads[i][1].ts)

\* C24, what the code gives: a thread whose replies were fetched holds the
\* root once, followed by the events of every page requested without the
\* root's echo; extract_slack_threads requests every page, so its threads hold
\* every reply
C24_AllReturned ==
    InPipeline =>
        \A i \in 1..Len(all_threads) :
            RepliesFetched(all_threads[i]) =>
                /\ RootOnce(all_threads[i])
                /\ Tail(all_threads[i]) =
                      PagesReturned(LoopCalls(CONVERSATIONS_REPLIES_URL,
                                              Some(all_threads[i][1].ts)))
                /\ (entry = "extract" /\ HasThread(all_threads[i][1].ts)) =>
                      Tail(all_threads[i]) = RepliesListed(all_threads[i][1].ts)

\* the handler ended without a failure with a thread that holds the first
\* page of its replies only
C24_Witness ==
    /\ entry = "app" /\ pc = "done" /\ failed = {}
    /\ \E i \in 1..Len(all_threads) :
          LET root == all_threads[i][1] IN
          /\ HasThread(root.ts)
          /\ Len(LoopCalls(CONVERSATIONS_REPLIES_URL, Some(root.ts))) = 1
          /\ Len(all_threads[i]) = 2
          /\ ThreadAt(root.ts).n = 2

----------------------------------------------------------------------------
(* C25: the order of the cleaning steps of a record's text *)

\* the text the order strip control characters, strip hyperlink tags, resolve
\* mention tokens, collapse whitespace gives
InOrderStated(s) ==
    Collapse(Val(ResolveNames(RemoveHyperlink(StripControl(s)),
                              users, channels, usergroups, FALSE)))

FormattingText == entry \in {"format_text", "app_format_text"}

HasHyperlink(s) == \E i \in 1..Len(s) : TagEnd(s, i, HTTPS_TAG) > 0
HasControl(s) == \E i \in 1..Len(s) : IsControl(s[i])

\* C25 as stated: the text of a record is the event's text with the control
\* characters stripped, then the hyperlink tags stripped, then the mention
\* tokens resolved, then the whitespace collapsed.  Violated: resolve_names is
\* applied to the raw text, and the hyperlink tags are not stripped.
C25_AsStated ==
    (FormattingText /\ pc = "done") => resolved = Some(InOrderStated(text))

\* C25, what the code gives: format_thread_data resolves the mention tokens of
\* the raw text, then strips the control characters and collapses the
\* whitespace; the result is that of the stated order for a text with no
\* control character and no hyperlink tag
C25_ResolveThenClean ==
    /\ (entry = "format_text" /\ pc = "clean_text") =>
          resolved = ResolveNames(text, users, channels, usergroups, FALSE)
    /\ (entry = "format_text" /\ pc = "done") =>
          /\ resolved = Some(Collapse(StripControl(
                            Val(ResolveNames(text, users, channels, usergroups, FALSE)))))
          /\ (~HasControl(text) /\ ~HasHyperlink(text)) =>
                resolved = Some(InOrderStated(text))

\* format_thread_data left a mention of a known user unresolved: the token
\* held a control character when resolve_names ran
C25_Witness ==
    /\ entry = "format_text" /\ pc = "done"
    /\ text = BrokenToken
    /\ resolved = Some(Token("@", KnownUser))
    /\ InOrderStated(text) = <<"@", "A", "l">>

----------------------------------------------------------------------------
(* C26: the tags left in a record's text *)

HasMiscTag(s) == \E i \in 1..Len(s) : TagEnd(s, i, MISC_TAG) > 0

\* C26 as stated: the text of a record holds no <!...> tag and no <https:...>
\* tag.  Violated: neither implementation strips them.
C26_AsStated ==
    (FormattingText /\ pc = "done") =>
        ~HasMiscTag(Val(resolved)) /\ ~HasHyperlink(Val(resolved))

\* C26, what the code gives: a <!...> tag that is no group mention and a
\* <https:...> tag of the event's text are in the record's text
C26_TagsKept ==
    (FormattingText /\ pc = "done" /\ ~HasControl(text)) =>
        /\ HasHyperlink(Val(resolved)) = HasHyperlink(text)
        /\ HasMiscTag(Val(resolved)) = Contains(text, HereTag)
        /\ Contains(Val(resolved), HereTag) = Contains(text, HereTag)

\* the handler's record text holds a <!here> tag and a hyperlink tag
C26_Witness ==
    /\ entry = "app_format_text" /\ pc = "done"
    /\ text = HereTag \o LinkTag
    /\ resolved = Some(text)

----------------------------------------------------------------------------
(* C27: the directories are built once, before the history loop *)

DirectoryUrls == {USERS_LIST_URL, CHANNELS_LIST_URL, USERGROUPS_LIST_URL}

\* a run of the handler, of extract_slack_threads or of the pipeline is past
\* fetch_workspace_data / fetch_users, fetch_channels, fetch_usergroups
DirectoriesBuilt ==
    /\ entry \in {"extract", "app", "run"}
    /\ pc \notin {"validate", "rejected", "run_start", "run_raised", "skipped",
                  "users", "channels", "groups"}

\* a step after the build leaves the directories alone and sends no request
\* to a directory endpoint
DirectoriesReadOnly ==
    DirectoriesBuilt =>
        /\ UNCHANGED <<users, channels, usergroups>>
        /\ calls' # calls => calls'[Len(calls')].url \notin DirectoryUrls

\* the place of a request in a run: users, channels, groups, then the rest
BuildRank(u) ==
    CASE u = USERS_LIST_URL -> 1
      [] u = CHANNELS_LIST_URL -> 2
      [] u = USERGROUPS_LIST_URL -> 3
      [] OTHER -> 4

\* the requests of a run are those of one build, then those of the history
\* and replies loops: each directory loop is entered once
BuiltOnceBeforeHistory ==
    entry \in {"extract", "app", "run"} =>
        /\ \A i \in 1..(Len(calls) - 1) :
              BuildRank(calls[i].url) <= BuildRank(calls[i + 1].url)
        /\ \A i, j \in 1..Len(calls) :
              (calls[i].url \in DirectoryUrls /\ calls[j].url = calls[i].url
                  /\ calls[i].params.cursor = None /\ calls[j].params.cursor = None) => i = j

\* C27: the three directories are built once per run, before the first
\* history request; afterwards they are not written and no directory endpoint
\* is requested again
C27_BuiltOnce == [][DirectoriesReadOnly]_vars /\ []BuiltOnceBeforeHistory

\* a run ended after two history pages and a replies request, with one
\* request to usergroups.list and the directories as the build left them
C27_Witness ==
    /\ entry = "app" /\ pc = "done" /\ failed = {}
    /\ users # <<>> /\ channels # <<>> /\ usergroups # <<>>
    /\ Len(LoopCalls(USERGROUPS_LIST_URL, None)) = 1
    /\ Len(LoopCalls(CONVERSATIONS_HISTORY_URL, None)) >= 2
    /\ \E i \in 1..Len(calls) : calls[i].url = CONVERSATIONS_REPLIES_URL

----------------------------------------------------------------------------
(* C28: a failed history page ends a run like a last page *)

\* the events of the range that the history requests answered held: all of
\* them, or those of the pages before the request that failed
Received ==
    IF HistoryFailed
    THEN SubSeq(InRange, 1,
                Min(Len(InRange),
                    (Len(LoopCalls(CONVERSATIONS_HISTORY_URL, None)) - 1) * HistPageSize))
    ELSE InRange

\* the replies a run gives the root m: those of every page in
\* extract_slack_threads, those of the first page in the handler
RepliesGiven(m) ==
    IF FetchesReplies(m) /\ HasThread(m.ts)
    THEN IF entry = "app"
         THEN SubSeq(RepliesListed(m.ts), 1, Min(api.repPage, Len(RepliesListed(m.ts))))
         ELSE RepliesListed(m.ts)
    ELSE <<>>

\* the threads of a run without failure over a history that holds the events ms
ThreadsOver(ms) ==
    LET roots == SelectSeq(ms, LAMBDA m : IsRoot(FilterUser(m))) IN
    [i \in 1..Len(roots) |-> <<roots[i]>> \o RepliesGiven(roots[i])]

\* C28: a run whose request for the page after page k failed ends with the
\* threads, the records and the statistics of a run over a history that ends
\* with page k, and raises no error: both are what a run gives over the
\* events received
C28_SilentTruncation ==
    (HistoryStopped /\ NoCap /\ CONVERSATIONS_REPLIES_URL \notin failed) =>
        /\ pc # "raised" =>
              /\ all_threads = ThreadsOver(Received)
              /\ entry # "app" => total_messages = Len(Received)
              /\ (pc # "format" /\ \A i \in 1..Len(all_threads) : ~FormatRaises(all_threads[i])) =>
                    records = [i \in 1..Len(all_threads) |-> FormatThread(all_threads[i])]
        /\ (HistoryFailed /\ \A i \in 1..Len(api.hist) : api.hist[i].lacks = {}) =>
              pc # "raised"

\* the handler answered with the threads of the first pages after the request
\* for a later page had failed
C28_Witness ==
    /\ entry = "app" /\ pc = "done"
    /\ failed = {CONVERSATIONS_HISTORY_URL}
    /\ Len(LoopCalls(CONVERSATIONS_HISTORY_URL, None)) >= 2
    /\ all_threads # <<>>
    /\ all_threads = ThreadsOver(Received)
    /\ Len(Received) < Len(InRange)
    /\ Len(records) = Len(all_threads)

----------------------------------------------------------------------------
(* C29: one log entry per run *)

RunStatuses == {"success", "partial_success", "no_data", "failed"}

\* the call of run_extraction_pipeline is over and was not skipped
RunOverUnskipped == entry = "run" /\ pc \in {"run_done", "run_raised"}

\* C29 as stated: every call of run_extraction_pipeline that skip_if_exists
\* does not skip appends exactly one log entry.  Violated: a call with a
\* malformed date raises ValueError from generate_filename, ahead of the try,
\* and appends nothing.
C29_AsStated == RunOverUnskipped => Len(appended) = 1

\* C29 amended: a call with well-formed dates that is not skipped appends
\* exactly one log entry, whatever became of the extraction; its status is one
\* of success, partial_success, no_data, failed, and no_data exactly when the
\* extraction returned no thread; a skipped call sends no request and appends
\* nothing; a call with a malformed date raises before any request and
\* appends nothing
C29_OneEntryPerRun ==
    entry = "run" =>
        /\ Len(appended) = (IF pc = "run_done" THEN 1 ELSE 0)
        /\ log = appended
        /\ pc = "run_raised" => args.dates = "malformed" /\ calls = <<>>
        /\ (args.dates = "ok" /\ pc \notin {"run_start", "skipped"}) =>
              ~(args.skip_if_exists /\ "raw" \in files /\ "raw" \notin written)
        /\ pc = "skipped" =>
              args.skip_if_exists /\ "raw" \in files /\ calls = <<>> /\ appended = <<>>
        /\ \A i \in 1..Len(appended) :
              /\ appended[i].status \in RunStatuses
              /\ appended[i].status = "no_data" <=>
                    (~ExtractionRaised /\ Len(all_threads) = 0)

\* a run whose extraction raised was logged once, as failed
C29_Witness ==
    /\ entry = "run" /\ pc = "run_done"
    /\ error_message = "extract_slack_threads"
    /\ calls # <<>>
    /\ log = appended
    /\ Len(appended) = 1
    /\ appended[1].status = "failed"

----------------------------------------------------------------------------
(* C30: the stored log is the tail of what was appended *)

----------------------------------------------------------------------------
(* C31: every row of the raw file is counted once *)

\* the statistics process_with_llm returns after the loop
TotalConversations == Len(df)

\* C31: each row the loop has been through is counted in exactly one of
\* processed, skipped and errors; when the loop is over the three counts add
\* up to total_conversations, and the summary file written holds as many rows
\* as were processed (none is written when none was processed)
C31_RowsCountedOnce ==
    entry = "llm" =>
        /\ processed_count + skipped_count + error_count = idx
        /\ Len(summary_data) = processed_count
        /\ pc = "llm_ret" =>
              /\ processed_count + skipped_count + error_count = TotalConversations
              /\ processed_count = Cardinality({i \in 1..Len(df) : AppendsRow(df[i])})
              /\ skipped_count = Cardinality({i \in 1..Len(df) : SkipsRow(df[i])})
              /\ error_count = Cardinality({i \in 1..Len(df) : RowRaises(df[i])})
              /\ (IF summary_rows = None THEN 0 ELSE Val(summary_rows)) = processed_count

\* the loop went through a processed row, a skipped row and a row that raised
C31_Witness ==
    /\ entry = "llm" /\ pc = "llm_ret"
    /\ Len(df) = 3
    /\ processed_count = 1 /\ skipped_count = 1 /\ error_count = 1
    /\ summary_rows = Some(1)

====
